---- MODULE Spec2Model ----
(***************************************************************************)
(* Entity tables of the station database (libs/database): the in-memory   *)
(* Cache Pool, the cascading Task read/write over the volatile sink        *)
(* (redis) and the durable sink (dos), and the per-entity policies built   *)
(* on them.                                                                *)
(*                                                                         *)
(* One behaviour follows ONE cache pool (pool_name) with its two sinks:    *)
(* the pools are separate objects keyed separately in both sinks, so the   *)
(* operations of one pool never read or write the state of another.        *)
(* Every caller-facing operation is one action: it runs under the Table    *)
(* mutex from its first to its last sink call.                             *)
(***************************************************************************)
EXTENDS Integers, Sequences, FiniteSets, TLC

VARIABLES
    pool_name,  \* which pool of the tables this behaviour follows
    cache,      \* CachePool: key -> None | Some(CacheEntry)
    redis,      \* volatile sink: key -> None | Some(value)
    dos,        \* durable sink: key -> None | Some(value)
    now,        \* DateTime.current_timestamp()
    op,         \* the last caller-facing operation: [name, key, arg]
    result,     \* what it ended with: [raised, value]
    calls,      \* the sink calls it issued, in order
    socket_address, \* ActiveTable._socket_address: ID -> None | Some(set of addresses)
    pc,         \* concurrent callers (coroutines of the event loop): where each is
    locks,      \* the mutexes: lock -> Free | the caller that holds it
    trace       \* the history of the callers: calls, sink calls issued, returns

\* the state of the callers of a Table that run concurrently
conc == <<socket_address, pc, locks, trace>>

vars == <<pool_name, cache, redis, dos, now, op, result, calls, conc>>

-----------------------------------------------------------------------------
(* Bounds *)

MaxNow == 3         \* the clock stops advancing here
MaxTime == 2        \* command times range over 0..MaxTime

(* DbTask.MEM_CACHE_EXPIRES / MEM_CACHE_REFRESH, in clock units *)
CacheExpires == 3
CacheRefresh == 1

-----------------------------------------------------------------------------
(* Values *)

None == <<>>
Some(v) == <<v>>

Users == {"u1"}

\* a Command: its logical send time, which may be missing
Commands ==
    [has_time : {TRUE}, time : 0..MaxTime] \cup [has_time : {FALSE}, time : {0}]

ContactLists == {<<>>, <<"c1">>, <<"c2">>}
DeviceLists == {<<>>, <<"d1">>, <<"d2">>}
\* a Document: its type and its time
DocumentLists == {<<>>,
                  <<[type |-> "visa", time |-> 1]>>,
                  <<[type |-> "visa", time |-> 1], [type |-> "bulletin", time |-> 1]>>}

UserPools == {"contacts"}
CommandPools == {"cmd.contacts", "cmd.block", "cmd.mute"}
DevicePools == {"devices"}
DocumentPools == {"documents"}
PoolNames == UserPools \cup CommandPools \cup DevicePools \cup DocumentPools

Values(pool) ==
    IF pool \in CommandPools THEN Commands
    ELSE IF pool \in DevicePools THEN DeviceLists
    ELSE IF pool \in DocumentPools THEN DocumentLists
    ELSE ContactLists

Option(S) == {None} \cup {Some(v) : v \in S}

\* the coroutines that call the operations of a Table concurrently
MaxCallers == 3
Callers == 1..MaxCallers

Addresses == {"a1", "a2"}

\* the Table's mutex (DataCache.lock), and one more lock per caller
TableLock == 0
Locks == {TableLock} \cup Callers

\* the holder of a lock that nobody holds
Free == 0

\* a caller that has not called anything
\* (ok: what the volatile sink answered to the write of an operation that
\* returns something else; for save_record, whether the sink calls before its
\* last were all answered)
Idle == [at |-> "idle", name |-> "none", key |-> "u1", arg |-> None,
         lock |-> TableLock, val |-> None, ret |-> None, ok |-> FALSE]

\* no caller is inside an operation
Quiet ==
    /\ socket_address = [u \in Users |-> None]
    /\ pc = [c \in Callers |-> Idle]
    /\ locks = [l \in Locks |-> Free]
    /\ trace = <<>>

-----------------------------------------------------------------------------
(* Cache Pool *)

\* fetch without the refresh window: an entry is fresh until it expires
Fetch_NoRefreshWindow(pool, key, t) ==
    IF pool[key] = None
    THEN [value |-> None, needsRefresh |-> FALSE]
    ELSE LET e == pool[key][1] IN
         IF t >= e.expireAt THEN [value |-> None, needsRefresh |-> FALSE]
         ELSE [value |-> Some(e.value), needsRefresh |-> FALSE]

\* fetch(key) -> (value_or_nil, needsRefresh)
Fetch(pool, key, t) ==
    IF pool[key] = None
    THEN [value |-> None, needsRefresh |-> FALSE]
    ELSE LET e == pool[key][1] IN
         IF t >= e.expireAt THEN [value |-> None, needsRefresh |-> FALSE]
         ELSE IF t >= e.refreshAt THEN [value |-> Some(e.value), needsRefresh |-> TRUE]
         ELSE [value |-> Some(e.value), needsRefresh |-> FALSE]

\* update(key, value, lifespan, now)
Update(pool, key, value, lifespan, t) ==
    [pool EXCEPT ![key] = Some([value |-> value,
                                expireAt |-> t + lifespan,
                                refreshAt |-> t + (lifespan - CacheRefresh)])]

\* update(key, value, lifespan, now) of a task built with its own cache_expires
\* and cache_refresh
UpdateFor(pool, key, value, lifespan, margin, t) ==
    [pool EXCEPT ![key] = Some([value |-> value,
                                expireAt |-> t + lifespan,
                                refreshAt |-> t + (lifespan - margin)])]

\* erase(key)
Erase(pool, key) == [pool EXCEPT ![key] = None]

-----------------------------------------------------------------------------
(* Sinks: a call that cannot reach the sink returns absent / false and      *)
(* leaves the sink as it was.                                               *)

SinkGet(store, key, up) == IF up THEN store[key] ELSE None

SinkSave(store, key, value, up) ==
    IF up THEN [store EXCEPT ![key] = Some(value)] ELSE store

\* one sink call, as recorded in calls: issued by a _read_data or a _write_data,
\* the value it returned (get) or was given (save), and whether it succeeded
GetCall(sink, ret) ==
    [by |-> "read", sink |-> sink, fn |-> "get", val |-> ret, ok |-> TRUE]
SaveCall(by, sink, value, ok) ==
    [by |-> by, sink |-> sink, fn |-> "save", val |-> Some(value), ok |-> ok]

\* availability of the sinks at each sink call of a read and of a write cascade
ReadAvail == [rget : BOOLEAN, dget : BOOLEAN, rfill : BOOLEAN]
WriteAvail == [rsave : BOOLEAN, dsave : BOOLEAN]

-----------------------------------------------------------------------------
(* Tasks *)

\* what a _read_data accepts as found: "is not None", and for the device and
\* document lists also "len(...) > 0"
Found(pool, v) ==
    /\ v # None
    /\ pool \in DevicePools \cup DocumentPools => Len(v[1]) > 0

\* _read_data without step 3: the durable value is returned and not written back
ReadData_NoBackfill(pool, key, r, d, av) ==
    LET v1 == SinkGet(r, key, av.rget)
        v2 == SinkGet(d, key, av.dget)
    IN  IF Found(pool, v1)
        THEN [value |-> v1, redis |-> r, calls |-> <<GetCall("redis", v1)>>]
        ELSE IF Found(pool, v2)
        THEN [value |-> v2, redis |-> r,
              calls |-> <<GetCall("redis", v1), GetCall("dos", v2)>>]
        ELSE [value |-> None, redis |-> r,
              calls |-> <<GetCall("redis", v1), GetCall("dos", v2)>>]

\* _read_data ending with "return []" where the code falls off the end (None)
ReadData_EmptyOnMiss(pool, key, r, d, av) ==
    LET v1 == SinkGet(r, key, av.rget)
        v2 == SinkGet(d, key, av.dget)
    IN  IF Found(pool, v1)
        THEN [value |-> v1, redis |-> r, calls |-> <<GetCall("redis", v1)>>]
        ELSE IF Found(pool, v2)
        THEN [value |-> v2,
              redis |-> SinkSave(r, key, v2[1], av.rfill),
              calls |-> <<GetCall("redis", v1), GetCall("dos", v2),
                          SaveCall("read", "redis", v2[1], av.rfill)>>]
        ELSE [value |-> Some(<<>>), redis |-> r,
              calls |-> <<GetCall("redis", v1), GetCall("dos", v2)>>]

\* _read_data that takes every list that "is not None", in every task
ReadData_EmptyIsFound(pool, key, r, d, av) ==
    LET v1 == SinkGet(r, key, av.rget)
        v2 == SinkGet(d, key, av.dget)
    IN  IF v1 # None
        THEN [value |-> v1, redis |-> r, calls |-> <<GetCall("redis", v1)>>]
        ELSE IF v2 # None
        THEN [value |-> v2,
              redis |-> SinkSave(r, key, v2[1], av.rfill),
              calls |-> <<GetCall("redis", v1), GetCall("dos", v2),
                          SaveCall("read", "redis", v2[1], av.rfill)>>]
        ELSE [value |-> None, redis |-> r,
              calls |-> <<GetCall("redis", v1), GetCall("dos", v2)>>]

\* XxxTask._read_data: redis, then dos, back-filling redis
ReadData(pool, key, r, d, av) ==
    LET v1 == SinkGet(r, key, av.rget)
        v2 == SinkGet(d, key, av.dget)
    IN  IF Found(pool, v1)
        THEN [value |-> v1, redis |-> r, calls |-> <<GetCall("redis", v1)>>]
        ELSE IF Found(pool, v2)
        THEN [value |-> v2,
              redis |-> SinkSave(r, key, v2[1], av.rfill),
              calls |-> <<GetCall("redis", v1), GetCall("dos", v2),
                          SaveCall("read", "redis", v2[1], av.rfill)>>]
        ELSE [value |-> None, redis |-> r,
              calls |-> <<GetCall("redis", v1), GetCall("dos", v2)>>]

\* _write_data returning "ok1 and ok2"
WriteData_Both(pool, key, value, r, d, av) ==
    LET ok1 == av.rsave
        ok2 == av.dsave
    IN  [ok |-> ok1 /\ ok2,
         redis |-> SinkSave(r, key, value, av.rsave),
         dos |-> SinkSave(d, key, value, av.dsave),
         calls |-> <<SaveCall("write", "redis", value, ok1),
                     SaveCall("write", "dos", value, ok2)>>]

\* _write_data that skips the durable write once the volatile write succeeded
WriteData_ShortCircuit(pool, key, value, r, d, av) ==
    LET ok1 == av.rsave
        ok2 == av.dsave
    IN  IF ok1
        THEN [ok |-> TRUE,
              redis |-> SinkSave(r, key, value, TRUE),
              dos |-> d,
              calls |-> <<SaveCall("write", "redis", value, TRUE)>>]
        ELSE [ok |-> ok2,
              redis |-> r,
              dos |-> SinkSave(d, key, value, av.dsave),
              calls |-> <<SaveCall("write", "redis", value, FALSE),
                          SaveCall("write", "dos", value, ok2)>>]

\* XxxTask._write_data: both sinks, ok1 or ok2
WriteData(pool, key, value, r, d, av) ==
    LET ok1 == av.rsave
        ok2 == av.dsave
    IN  [ok |-> ok1 \/ ok2,
         redis |-> SinkSave(r, key, value, av.rsave),
         dos |-> SinkSave(d, key, value, av.dsave),
         calls |-> <<SaveCall("write", "redis", value, ok1),
                     SaveCall("write", "dos", value, ok2)>>]

\* DbTask.load
Load(pool, key, c, r, d, t, av) ==
    LET hit == Fetch(c, key, t)
        rd == ReadData(pool, key, r, d, av)
        filled == IF rd.value = None THEN c
                  ELSE Update(c, key, rd.value[1], CacheExpires, t)
    IN  IF hit.value # None /\ ~hit.needsRefresh
        THEN [value |-> hit.value, cache |-> c, redis |-> r, calls |-> <<>>]
        ELSE IF hit.value # None
        THEN [value |-> hit.value, cache |-> filled, redis |-> rd.redis, calls |-> rd.calls]
        ELSE [value |-> rd.value, cache |-> filled, redis |-> rd.redis, calls |-> rd.calls]

\* DbTask.save
Save(pool, key, value, c, r, d, t, av) ==
    LET wr == WriteData(pool, key, value, r, d, av)
    IN  [ok |-> wr.ok,
         cache |-> Update(c, key, value, CacheExpires, t),
         redis |-> wr.redis, dos |-> wr.dos, calls |-> wr.calls]

-----------------------------------------------------------------------------
(* Initial state: a fresh process over sinks that outlive it *)

Init ==
    /\ pool_name \in PoolNames
    /\ cache = [u \in Users |-> None]
    /\ redis = [u \in Users |-> None]
    /\ dos \in [Users -> Option(Values(pool_name))]
    /\ now = 0
    /\ op = [name |-> "init", key |-> "u1", arg |-> None, at |-> 0]
    /\ result = [raised |-> FALSE, value |-> None]
    /\ calls = <<>>
    /\ Quiet

Tick ==
    /\ now < MaxNow
    /\ now' = now + 1
    /\ UNCHANGED <<pool_name, cache, redis, dos, op, result, calls, conc>>

\* UserTable.get_contacts
get_contacts(user) ==
    /\ pool_name = "contacts"
    /\ \E ld \in {Load("contacts", user, cache, redis, dos, now, av) : av \in ReadAvail} :
        /\ cache' = ld.cache
        /\ redis' = ld.redis
        /\ calls' = ld.calls
        /\ result' = [raised |-> FALSE,
                      value |-> IF ld.value = None THEN <<>> ELSE ld.value[1]]
    /\ op' = [name |-> "get_contacts", key |-> user, arg |-> None, at |-> now]
    /\ UNCHANGED <<conc, pool_name, dos, now>>

\* save_contacts writing the sinks itself, past the task and its Cache Pool
save_contacts_PastCache(contacts, user) ==
    /\ pool_name = "contacts"
    /\ \E wr \in {WriteData("contacts", user, contacts, redis, dos, av) : av \in WriteAvail} :
        /\ redis' = wr.redis
        /\ dos' = wr.dos
        /\ calls' = wr.calls
        /\ result' = [raised |-> FALSE, value |-> wr.ok]
    /\ op' = [name |-> "save_contacts", key |-> user, arg |-> Some(contacts), at |-> now]
    /\ UNCHANGED <<conc, pool_name, cache, now>>

\* UserTable.save_contacts
save_contacts(contacts, user) ==
    /\ pool_name = "contacts"
    /\ \E sv \in {Save("contacts", user, contacts, cache, redis, dos, now, av) : av \in WriteAvail} :
        /\ cache' = sv.cache
        /\ redis' = sv.redis
        /\ dos' = sv.dos
        /\ calls' = sv.calls
        /\ result' = [raised |-> FALSE, value |-> sv.ok]
    /\ op' = [name |-> "save_contacts", key |-> user, arg |-> Some(contacts), at |-> now]
    /\ UNCHANGED <<conc, pool_name, now>>

-----------------------------------------------------------------------------
(* Command records: contacts, block list, mute list *)

\* dimples.utils.is_before: the stored time is before the incoming time
is_before(old, new_time) == old.has_time /\ old.time < new_time

\* a Python value is true in "if await self._is_xxx_expired(...)"
Truthy(ret) == ret = "True"

\* get_xxx_command reading the sinks itself, past the task's load
get_command_PastCache(pool, user, c, r, d, t, av) ==
    LET rd == ReadData(pool, user, r, d, av) IN
    [value |-> rd.value, cache |-> c, redis |-> rd.redis, calls |-> rd.calls]

\* UserTable.get_contacts_command / get_block_command / get_mute_command
get_command(pool, user, c, r, d, t, av) == Load(pool, user, c, r, d, t, av)

\* UserTable._is_contacts_expired: "old, _ = await self.get_contacts_command(...)"
\* unpacks an Optional[Command] into two names, which raises for None
\* (TypeError) and for a Command (ValueError: it iterates over more than two
\* keys), after the load has run.
is_contacts_expired(user, content, c, r, d, t, av) ==
    IF ~content.has_time \/ content.time <= 0
    THEN [raised |-> FALSE, ret |-> "False", cache |-> c, redis |-> r, calls |-> <<>>]
    ELSE LET ld == get_command("cmd.contacts", user, c, r, d, t, av) IN
         [raised |-> TRUE, ret |-> "None",
          cache |-> ld.cache, redis |-> ld.redis, calls |-> ld.calls]

\* _is_blocked_expired without the early return for a missing or non-positive time
is_blocked_expired_NoSkip(user, content, c, r, d, t, av) ==
    LET ld == get_command("cmd.block", user, c, r, d, t, av)
        old == ld.value
    IN  [raised |-> FALSE,
         ret |-> IF old # None /\ is_before(old[1], content.time)
                 THEN "False" ELSE "None",
         cache |-> ld.cache, redis |-> ld.redis, calls |-> ld.calls]

\* UserTable._is_blocked_expired
is_blocked_expired(user, content, c, r, d, t, av) ==
    IF ~content.has_time \/ content.time <= 0
    THEN [raised |-> FALSE, ret |-> "False", cache |-> c, redis |-> r, calls |-> <<>>]
    ELSE LET ld == get_command("cmd.block", user, c, r, d, t, av)
             old == ld.value
         IN  [raised |-> FALSE,
              ret |-> IF old # None /\ is_before(old[1], content.time)
                      THEN "False" ELSE "None",
              cache |-> ld.cache, redis |-> ld.redis, calls |-> ld.calls]

\* UserTable._is_muted_expired
is_muted_expired(user, content, c, r, d, t, av) ==
    IF ~content.has_time \/ content.time <= 0
    THEN [raised |-> FALSE, ret |-> "False", cache |-> c, redis |-> r, calls |-> <<>>]
    ELSE LET ld == get_command("cmd.mute", user, c, r, d, t, av)
             old == ld.value
         IN  [raised |-> FALSE,
              ret |-> IF old # None /\ is_before(old[1], content.time)
                      THEN "False" ELSE "None",
              cache |-> ld.cache, redis |-> ld.redis, calls |-> ld.calls]

\* the body shared by save_contacts_command / save_block_command /
\* save_mute_command once the expiry check chk has run: what the call leaves
SaveCommand(pool, chk, content, user, d, t, wa) ==
    LET sv == Save(pool, user, content, chk.cache, chk.redis, d, t, wa) IN
    IF chk.raised
    THEN [cache |-> chk.cache, redis |-> chk.redis, dos |-> d, calls |-> chk.calls,
          result |-> [raised |-> TRUE, value |-> FALSE]]
    ELSE IF Truthy(chk.ret)
    THEN [cache |-> chk.cache, redis |-> chk.redis, dos |-> d, calls |-> chk.calls,
          result |-> [raised |-> FALSE, value |-> FALSE]]
    ELSE [cache |-> sv.cache, redis |-> sv.redis, dos |-> sv.dos,
          calls |-> chk.calls \o sv.calls,
          result |-> [raised |-> FALSE, value |-> sv.ok]]

\* the call ends in one of the outcomes outs
Ends(outs, name, identifier, content) ==
    /\ \E out \in outs :
        /\ cache' = out.cache
        /\ redis' = out.redis
        /\ dos' = out.dos
        /\ calls' = out.calls
        /\ result' = out.result
    /\ op' = [name |-> name, key |-> identifier, arg |-> Some(content), at |-> now]
    /\ UNCHANGED <<conc, pool_name, now>>

\* UserTable.save_contacts_command
save_contacts_command(content, identifier) ==
    /\ pool_name = "cmd.contacts"
    /\ Ends({SaveCommand("cmd.contacts",
                is_contacts_expired(identifier, content, cache, redis, dos, now, ra),
                content, identifier, dos, now, wa) : ra \in ReadAvail, wa \in WriteAvail},
            "save_contacts_command", identifier, content)

\* UserTable.save_block_command
save_block_command(content, identifier) ==
    /\ pool_name = "cmd.block"
    /\ Ends({SaveCommand("cmd.block",
                is_blocked_expired(identifier, content, cache, redis, dos, now, ra),
                content, identifier, dos, now, wa) : ra \in ReadAvail, wa \in WriteAvail},
            "save_block_command", identifier, content)

\* UserTable.save_mute_command
save_mute_command(content, identifier) ==
    /\ pool_name = "cmd.mute"
    /\ Ends({SaveCommand("cmd.mute",
                is_muted_expired(identifier, content, cache, redis, dos, now, ra),
                content, identifier, dos, now, wa) : ra \in ReadAvail, wa \in WriteAvail},
            "save_mute_command", identifier, content)

\* the body shared by the three get_xxx_command
GetCommand(pool, name, identifier) ==
    /\ pool_name = pool
    /\ \E ld \in {get_command(pool, identifier, cache, redis, dos, now, av) : av \in ReadAvail} :
        /\ cache' = ld.cache
        /\ redis' = ld.redis
        /\ calls' = ld.calls
        /\ result' = [raised |-> FALSE, value |-> ld.value]
    /\ op' = [name |-> name, key |-> identifier, arg |-> None, at |-> now]
    /\ UNCHANGED <<conc, pool_name, dos, now>>

\* UserTable.get_contacts_command
get_contacts_command(identifier) ==
    GetCommand("cmd.contacts", "get_contacts_command", identifier)

\* UserTable.get_block_command
get_block_command(identifier) ==
    GetCommand("cmd.block", "get_block_command", identifier)

\* UserTable.get_mute_command
get_mute_command(identifier) ==
    GetCommand("cmd.mute", "get_mute_command", identifier)

-----------------------------------------------------------------------------
(* Devices *)

\* DeviceTable.get_devices
get_devices(identifier) ==
    /\ pool_name = "devices"
    /\ \E ld \in {Load("devices", identifier, cache, redis, dos, now, av) : av \in ReadAvail} :
        /\ cache' = ld.cache
        /\ redis' = ld.redis
        /\ calls' = ld.calls
        /\ result' = [raised |-> FALSE, value |-> ld.value]
    /\ op' = [name |-> "get_devices", key |-> identifier, arg |-> None, at |-> now]
    /\ UNCHANGED <<conc, pool_name, dos, now>>

\* DeviceTable.save_devices
save_devices(devices, identifier) ==
    /\ pool_name = "devices"
    /\ \E sv \in {Save("devices", identifier, devices, cache, redis, dos, now, av) : av \in WriteAvail} :
        /\ cache' = sv.cache
        /\ redis' = sv.redis
        /\ dos' = sv.dos
        /\ calls' = sv.calls
        /\ result' = [raised |-> FALSE, value |-> sv.ok]
    /\ op' = [name |-> "save_devices", key |-> identifier, arg |-> Some(devices), at |-> now]
    /\ UNCHANGED <<conc, pool_name, now>>

-----------------------------------------------------------------------------
(* Documents *)

\* DocumentTable.get_documents
get_documents(identifier) ==
    /\ pool_name = "documents"
    /\ \E ld \in {Load("documents", identifier, cache, redis, dos, now, av) : av \in ReadAvail} :
        /\ cache' = ld.cache
        /\ redis' = ld.redis
        /\ calls' = ld.calls
        /\ result' = [raised |-> FALSE,
                      value |-> IF ld.value = None THEN <<>> ELSE ld.value[1]]
    /\ op' = [name |-> "get_documents", key |-> identifier, arg |-> None, at |-> now]
    /\ UNCHANGED <<conc, pool_name, dos, now>>

-----------------------------------------------------------------------------

Next ==
    \/ Tick
    \/ \E u \in Users : get_contacts(u)
    \/ \E u \in Users, c \in ContactLists : save_contacts(c, u)
    \/ \E u \in Users : get_contacts_command(u)
    \/ \E u \in Users, c \in Commands : save_contacts_command(c, u)
    \/ \E u \in Users : get_block_command(u)
    \/ \E u \in Users, c \in Commands : save_block_command(c, u)
    \/ \E u \in Users : get_mute_command(u)
    \/ \E u \in Users, c \in Commands : save_mute_command(c, u)
    \/ \E u \in Users : get_devices(u)
    \/ \E u \in Users, l \in DeviceLists : save_devices(l, u)
    \/ \E u \in Users : get_documents(u)

Spec == Init /\ [][Next]_vars

-----------------------------------------------------------------------------
(* The sinks are shared: the station and its bots are separate processes over *)
(* the same redis server and the same storage directory.                     *)

\* a save by another process: its own task's _write_data on the shared sinks
\* (its Cache Pool is its own)
other_process_saves(value, key) ==
    /\ \E wr \in {WriteData(pool_name, key, value, redis, dos, av) : av \in WriteAvail} :
        /\ redis' = wr.redis
        /\ dos' = wr.dos
    /\ UNCHANGED <<conc, pool_name, cache, now, op, result, calls>>

SharedPools == {"contacts", "documents"}

InitShared == Init /\ pool_name \in SharedPools

NextShared ==
    \/ Tick
    \/ \E u \in Users : get_contacts(u)
    \/ \E u \in Users, c \in ContactLists : save_contacts(c, u)
    \/ \E u \in Users : get_documents(u)
    \/ \E u \in Users, v \in Values(pool_name) : other_process_saves(v, u)

SpecShared == InitShared /\ [][NextShared]_vars

-----------------------------------------------------------------------------
(* The read cascades of a fresh process over sinks that both outlive it: the *)
(* volatile sink too holds whatever was written to it before, an empty list  *)
(* included.                                                                 *)

InitCascade ==
    /\ pool_name \in PoolNames
    /\ cache = [u \in Users |-> None]
    /\ redis \in [Users -> Option(Values(pool_name))]
    /\ dos \in [Users -> Option(Values(pool_name))]
    /\ now = 0
    /\ op = [name |-> "init", key |-> "u1", arg |-> None, at |-> 0]
    /\ result = [raised |-> FALSE, value |-> None]
    /\ calls = <<>>
    /\ Quiet

NextCascade ==
    \/ Tick
    \/ \E u \in Users : get_contacts(u)
    \/ \E u \in Users : get_contacts_command(u)
    \/ \E u \in Users : get_block_command(u)
    \/ \E u \in Users : get_mute_command(u)
    \/ \E u \in Users : get_devices(u)
    \/ \E u \in Users : get_documents(u)

SpecCascade == InitCascade /\ [][NextCascade]_vars

-----------------------------------------------------------------------------
(* Concurrent callers of one Table.  The callers are coroutines of the one   *)
(* event loop of the process (Runner.sync_run): a caller runs until it       *)
(* awaits a sink call, and another caller runs meanwhile.  The mutex is a    *)
(* threading.Lock taken by "with": a caller that finds it held does not      *)
(* yield, it blocks the thread of the event loop.                            *)

ConcPools == {"devices", "contacts", "session"}

\* the thread of the event loop is inside Lock.acquire(): no coroutine runs
ThreadBlocked == \E c \in Callers : pc[c].at = "blocked"

\* the callers are numbered in the order of their calls: c calls next
Arrives(c) == pc[c].at = "idle" /\ \A d \in 1..(c - 1) : pc[d].at # "idle"

\* a task with a mutex of its own instead of the Table's
NewTask_OwnLock(c) == [mutex_lock |-> c, cache_pool |-> pool_name]

\* XxxTable._new_task: every task gets the Table's mutex and Cache Pool
NewTask(c) == [mutex_lock |-> TableLock, cache_pool |-> pool_name]

\* an event of the caller c: its call of an operation of the Table, a sink call
\* it issues, its return
Event(c, sink, fn, key) == [caller |-> c, sink |-> sink, fn |-> fn, key |-> key]
Call(c, key) == Event(c, "table", "call", key)

\* "with lock:" finding the lock held
Block(c, name, key, arg, lock) ==
    /\ pc' = [pc EXCEPT ![c] = [Idle EXCEPT !.at = "blocked", !.name = name,
                                          !.key = key, !.arg = arg, !.lock = lock]]
    /\ trace' = Append(trace, Call(c, key))
    /\ UNCHANGED <<cache, redis, dos, locks, socket_address>>

\* the end of "with lock:" and the return of the call
Return(c, ret) ==
    /\ pc' = [pc EXCEPT ![c].at = "done", ![c].ret = ret]
    /\ locks' = [locks EXCEPT ![pc[c].lock] = Free]
    /\ trace' = Append(trace, Event(c, "table", "return", pc[c].key))

\* get_devices / get_contacts called: DbTask.load up to its first sink call
task_load(c, key) ==
    LET task == NewTask(c)
        name == IF pool_name = "devices" THEN "get_devices" ELSE "get_contacts"
        hit == Fetch(cache, key, now)
    IN  /\ pool_name \in {"devices", "contacts"}
        /\ Arrives(c)
        /\ ~ThreadBlocked
        /\ IF locks[task.mutex_lock] # Free
           THEN Block(c, name, key, None, task.mutex_lock)
           ELSE IF hit.value # None /\ ~hit.needsRefresh
           THEN /\ pc' = [pc EXCEPT ![c] = [Idle EXCEPT !.at = "done", !.name = name,
                                                 !.key = key, !.ret = hit.value]]
                /\ trace' = trace \o <<Call(c, key), Event(c, "table", "return", key)>>
                /\ UNCHANGED <<cache, redis, dos, locks, socket_address>>
           ELSE /\ pc' = [pc EXCEPT ![c] = [Idle EXCEPT !.at = "redis.get", !.name = name,
                                                 !.key = key, !.lock = task.mutex_lock,
                                                 !.ret = hit.value]]
                /\ locks' = [locks EXCEPT ![task.mutex_lock] = c]
                /\ trace' = trace \o <<Call(c, key), Event(c, "redis", "get", key)>>
                /\ UNCHANGED <<cache, redis, dos, socket_address>>
        /\ UNCHANGED <<pool_name, now, op, result, calls>>

\* DbTask.load after its _read_data returned value: the Cache Pool takes a
\* value that was found, and the caller gets it (or the stale value it had)
LoadReturns(c, value) ==
    /\ cache' = IF value = None THEN cache
                ELSE Update(cache, pc[c].key, value[1], CacheExpires, now)
    /\ Return(c, IF pc[c].ret # None THEN pc[c].ret ELSE value)

\* _read_data: the volatile sink answered
read_data_redis(c) ==
    /\ pc[c].at = "redis.get"
    /\ ~ThreadBlocked
    /\ \E up \in BOOLEAN :
        LET v1 == SinkGet(redis, pc[c].key, up) IN
        IF Found(pool_name, v1)
        THEN /\ LoadReturns(c, v1)
             /\ UNCHANGED redis
        ELSE /\ pc' = [pc EXCEPT ![c].at = "dos.get"]
             /\ trace' = Append(trace, Event(c, "dos", "get", pc[c].key))
             /\ UNCHANGED <<cache, redis, locks>>
    /\ UNCHANGED <<pool_name, dos, now, op, result, calls, socket_address>>

\* _read_data: the durable sink answered
read_data_dos(c) ==
    /\ pc[c].at = "dos.get"
    /\ ~ThreadBlocked
    /\ \E up \in BOOLEAN :
        LET v2 == SinkGet(dos, pc[c].key, up) IN
        IF Found(pool_name, v2)
        THEN /\ pc' = [pc EXCEPT ![c].at = "redis.fill", ![c].val = v2]
             /\ trace' = Append(trace, Event(c, "redis", "save", pc[c].key))
             /\ UNCHANGED <<cache, locks>>
        ELSE LoadReturns(c, None)
    /\ UNCHANGED <<pool_name, redis, dos, now, op, result, calls, socket_address>>

\* _read_data: the back-fill of the volatile sink returned
read_data_fill(c) ==
    /\ pc[c].at = "redis.fill"
    /\ ~ThreadBlocked
    /\ \E up \in BOOLEAN : redis' = SinkSave(redis, pc[c].key, pc[c].val[1], up)
    /\ LoadReturns(c, pc[c].val)
    /\ UNCHANGED <<pool_name, dos, now, op, result, calls, socket_address>>

\* save_devices / save_contacts called: DbTask.save up to its first sink call
task_save(c, value, key) ==
    LET task == NewTask(c)
        name == IF pool_name = "devices" THEN "save_devices" ELSE "save_contacts"
    IN  /\ pool_name \in {"devices", "contacts"}
        /\ Arrives(c)
        /\ ~ThreadBlocked
        /\ IF locks[task.mutex_lock] # Free
           THEN Block(c, name, key, Some(value), task.mutex_lock)
           ELSE /\ pc' = [pc EXCEPT ![c] = [Idle EXCEPT !.at = "redis.save", !.name = name,
                                                 !.key = key, !.arg = Some(value),
                                                 !.lock = task.mutex_lock]]
                /\ locks' = [locks EXCEPT ![task.mutex_lock] = c]
                /\ trace' = trace \o <<Call(c, key), Event(c, "redis", "save", key)>>
                /\ UNCHANGED <<cache, redis, dos, socket_address>>
        /\ UNCHANGED <<pool_name, now, op, result, calls>>

\* _write_data: the volatile write returned ok1
write_data_redis(c) ==
    /\ pc[c].at = "redis.save"
    /\ ~ThreadBlocked
    /\ \E ok1 \in BOOLEAN :
        /\ redis' = SinkSave(redis, pc[c].key, pc[c].arg[1], ok1)
        /\ pc' = [pc EXCEPT ![c].at = "dos.save", ![c].val = Some(ok1)]
    /\ trace' = Append(trace, Event(c, "dos", "save", pc[c].key))
    /\ UNCHANGED <<pool_name, cache, dos, now, op, result, calls, socket_address, locks>>

\* _write_data: the durable write returned ok2; DbTask.save updates the Cache
\* Pool and returns ok1 or ok2
write_data_dos(c) ==
    /\ pc[c].at = "dos.save"
    /\ ~ThreadBlocked
    /\ \E ok2 \in BOOLEAN :
        /\ dos' = SinkSave(dos, pc[c].key, pc[c].arg[1], ok2)
        /\ Return(c, Some(pc[c].val[1] \/ ok2))
    /\ cache' = Update(cache, pc[c].key, pc[c].arg[1], CacheExpires, now)
    /\ UNCHANGED <<pool_name, redis, now, op, result, calls, socket_address>>

\* the body of add_ / remove_socket_address without "with self.lock:"
SocketsCalled_NoLock(c, name, identifier, address, sockets) ==
    /\ pool_name = "session"
    /\ Arrives(c)
    /\ ~ThreadBlocked
    /\ socket_address' = [socket_address EXCEPT ![identifier] = sockets]
    /\ pc' = [pc EXCEPT ![c] = [Idle EXCEPT !.at = "sockets.save", !.name = name,
                                     !.key = identifier, !.arg = Some(address),
                                     !.lock = c, !.val = sockets]]
    /\ locks' = [locks EXCEPT ![c] = c]
    /\ trace' = trace \o <<Call(c, identifier), Event(c, "redis", "save", identifier)>>
    /\ UNCHANGED <<cache, redis, dos>>
    /\ UNCHANGED <<pool_name, now, op, result, calls>>

\* the body shared by add_socket_address and remove_socket_address: under the
\* Table's mutex, the map takes sockets and the volatile sink is asked to
SocketsCalled(c, name, identifier, address, sockets) ==
    /\ pool_name = "session"
    /\ Arrives(c)
    /\ ~ThreadBlocked
    /\ IF locks[TableLock] # Free
       THEN Block(c, name, identifier, Some(address), TableLock)
       ELSE /\ socket_address' = [socket_address EXCEPT ![identifier] = sockets]
            /\ pc' = [pc EXCEPT ![c] = [Idle EXCEPT !.at = "sockets.save", !.name = name,
                                             !.key = identifier, !.arg = Some(address),
                                             !.val = sockets]]
            /\ locks' = [locks EXCEPT ![TableLock] = c]
            /\ trace' = trace \o <<Call(c, identifier), Event(c, "redis", "save", identifier)>>
            /\ UNCHANGED <<cache, redis, dos>>
    /\ UNCHANGED <<pool_name, now, op, result, calls>>

\* ActiveTable.add_socket_address, up to its sink call
add_socket_address(c, identifier, address) ==
    LET old == socket_address[identifier]
        sockets == IF old = None THEN {address} ELSE old[1] \cup {address}
    IN  SocketsCalled(c, "add_socket_address", identifier, address, Some(sockets))

\* remove_socket_address without "self._socket_address.pop(identifier, None)"
remove_socket_address_KeepEmpty(c, identifier, address) ==
    LET old == socket_address[identifier]
        sockets == IF old = None THEN None ELSE Some(old[1] \ {address})
    IN  SocketsCalled(c, "remove_socket_address", identifier, address, sockets)

\* ActiveTable.remove_socket_address, up to its sink call
remove_socket_address(c, identifier, address) ==
    LET old == socket_address[identifier]
        sockets == IF old = None \/ old = Some({address}) THEN None
                   ELSE Some(old[1] \ {address})
    IN  SocketsCalled(c, "remove_socket_address", identifier, address, sockets)

\* save_socket_addresses returned: the end of add_ / remove_socket_address
socket_addresses_saved(c) ==
    /\ pc[c].at = "sockets.save"
    /\ ~ThreadBlocked
    /\ \E up \in BOOLEAN :
        /\ redis' = IF up THEN [redis EXCEPT ![pc[c].key] = pc[c].val] ELSE redis
        /\ pc' = [pc EXCEPT ![c].at = "done", ![c].ret = pc[c].val, ![c].ok = up]
    /\ locks' = [locks EXCEPT ![pc[c].lock] = Free]
    /\ trace' = Append(trace, Event(c, "table", "return", pc[c].key))
    /\ UNCHANGED <<pool_name, cache, dos, now, op, result, calls, socket_address>>

\* the lists the concurrent callers save
Saved(pool) == IF pool = "devices" THEN {<<"d2">>} ELSE {<<"c2">>}

InitConc ==
    /\ pool_name \in ConcPools
    /\ cache = [u \in Users |-> None]
    /\ redis = [u \in Users |-> None]
    /\ dos \in IF pool_name = "session" THEN {[u \in Users |-> None]}
               ELSE [Users -> Option(Values(pool_name))]
    /\ now = 0
    /\ op = [name |-> "init", key |-> "u1", arg |-> None, at |-> 0]
    /\ result = [raised |-> FALSE, value |-> None]
    /\ calls = <<>>
    /\ Quiet

NextConc ==
    \/ Tick
    \/ \E c \in Callers, u \in Users : task_load(c, u)
    \/ \E c \in Callers : read_data_redis(c)
    \/ \E c \in Callers : read_data_dos(c)
    \/ \E c \in Callers : read_data_fill(c)
    \/ \E c \in Callers, u \in Users, v \in Saved(pool_name) : task_save(c, v, u)
    \/ \E c \in Callers : write_data_redis(c)
    \/ \E c \in Callers : write_data_dos(c)
    \/ \E c \in Callers, u \in Users, a \in Addresses : add_socket_address(c, u, a)
    \/ \E c \in Callers, u \in Users, a \in Addresses : remove_socket_address(c, u, a)
    \/ \E c \in Callers : socket_addresses_saved(c)

SpecConc == InitConc /\ [][NextConc]_vars

-----------------------------------------------------------------------------
(* Startup of the station (GlobalVariable.prepare, create_database) and the  *)
(* ActiveTable of its database afterwards.  The caller Main is the coroutine *)
(* that runs prepare; the other callers are calls made by the components     *)
(* that were given the database.                                             *)

\* ActTask.cache_key
ACTIVE_KEY == "active_users"

\* ActTask.MEM_CACHE_EXPIRES / MEM_CACHE_REFRESH, in clock units
ActExpires == 2
ActRefresh == 1

Main == 1

\* the components that hold the database when prepare is at a position
Holders_BeforeClear(at) ==
    CASE at = "idle" -> {}
      [] at = "sockets.clear" -> {"block_filter", "mute_filter"}
      [] at = "refresh_neighbors" -> {"block_filter", "mute_filter", "refresh_neighbors"}
      [] at = "create_facebook" ->
            {"block_filter", "mute_filter", "refresh_neighbors", "facebook"}
      [] OTHER -> {"block_filter", "mute_filter", "refresh_neighbors", "facebook",
                   "deliver", "roamer", "dispatcher", "messenger"}

\* the components that hold the database when prepare is at a position: the
\* filters get it after "await db.clear_socket_addresses()"
Holders(at) ==
    CASE at \in {"idle", "sockets.clear"} -> {}
      [] at = "refresh_neighbors" -> {"block_filter", "mute_filter", "refresh_neighbors"}
      [] at = "create_facebook" ->
            {"block_filter", "mute_filter", "refresh_neighbors", "facebook"}
      [] OTHER -> {"block_filter", "mute_filter", "refresh_neighbors", "facebook",
                   "deliver", "roamer", "dispatcher", "messenger"}

\* a component that holds the database calls it
Serving(c) == c # Main /\ Holders(pc[Main].at) # {}

\* LoginCache.get_active_users: the identifiers the volatile sink holds socket
\* addresses of, absent when it cannot be reached
ActiveUsers(r, up) == IF up THEN Some({u \in Users : r[u] # None}) ELSE None

\* GlobalVariable.prepare up to its first await: create_database builds the
\* Database and calls clear_socket_addresses, which takes the mutex, erases the
\* cached active users and asks the volatile sink
prepare ==
    /\ pool_name = "session"
    /\ pc[Main].at = "idle"
    /\ locks[TableLock] = Free
    /\ socket_address' = [u \in Users |-> None]
    /\ cache' = Erase(cache, ACTIVE_KEY)
    /\ pc' = [pc EXCEPT ![Main] = [Idle EXCEPT !.at = "sockets.clear", !.name = "prepare",
                                          !.key = ACTIVE_KEY]]
    /\ locks' = [locks EXCEPT ![TableLock] = Main]
    /\ trace' = trace \o <<Call(Main, ACTIVE_KEY), Event(Main, "redis", "clear", ACTIVE_KEY)>>
    /\ UNCHANGED <<pool_name, redis, dos, now, op, result, calls>>

\* clear_socket_addresses that does not ask the volatile sink
socket_addresses_cleared_KeepSink ==
    /\ pc[Main].at = "sockets.clear"
    /\ ~ThreadBlocked
    /\ \E up \in BOOLEAN :
        /\ redis' = redis
        /\ pc' = [pc EXCEPT ![Main].at = "refresh_neighbors", ![Main].ok = up]
    /\ locks' = [locks EXCEPT ![TableLock] = Free]
    /\ trace' = Append(trace, Event(Main, "table", "cleared", ACTIVE_KEY))
    /\ UNCHANGED <<pool_name, cache, dos, now, op, result, calls, socket_address>>

\* clear_socket_addresses returned: create_database hands the database to the
\* filters and returns it, and prepare awaits refresh_neighbors
socket_addresses_cleared ==
    /\ pc[Main].at = "sockets.clear"
    /\ ~ThreadBlocked
    /\ \E up \in BOOLEAN :
        /\ redis' = IF up THEN [u \in Users |-> None] ELSE redis
        /\ pc' = [pc EXCEPT ![Main].at = "refresh_neighbors", ![Main].ok = up]
    /\ locks' = [locks EXCEPT ![TableLock] = Free]
    /\ trace' = Append(trace, Event(Main, "table", "cleared", ACTIVE_KEY))
    /\ UNCHANGED <<pool_name, cache, dos, now, op, result, calls, socket_address>>

\* refresh_neighbors returned (prepare awaits create_facebook), and then
\* create_facebook: prepare builds the dispatcher and the rest and returns
prepare_continues ==
    /\ pc[Main].at \in {"refresh_neighbors", "create_facebook"}
    /\ ~ThreadBlocked
    /\ pc' = [pc EXCEPT ![Main].at = IF pc[Main].at = "refresh_neighbors"
                                     THEN "create_facebook" ELSE "done"]
    /\ trace' = IF pc[Main].at = "create_facebook"
                THEN Append(trace, Event(Main, "table", "return", ACTIVE_KEY))
                ELSE trace
    /\ UNCHANGED <<pool_name, cache, redis, dos, now, op, result, calls,
                   socket_address, locks>>

\* get_active_users: DbTask.load of the ActTask up to its sink call
get_active_users(c) ==
    LET hit == Fetch(cache, ACTIVE_KEY, now) IN
    /\ pool_name = "session"
    /\ Arrives(c)
    /\ ~ThreadBlocked
    /\ IF locks[TableLock] # Free
       THEN Block(c, "get_active_users", ACTIVE_KEY, None, TableLock)
       ELSE IF hit.value # None /\ ~hit.needsRefresh
       THEN /\ pc' = [pc EXCEPT ![c] = [Idle EXCEPT !.at = "done",
                                             !.name = "get_active_users",
                                             !.key = ACTIVE_KEY, !.ret = hit.value]]
            /\ trace' = trace \o <<Call(c, ACTIVE_KEY),
                                   Event(c, "table", "return", ACTIVE_KEY)>>
            /\ UNCHANGED <<cache, redis, dos, locks, socket_address>>
       ELSE /\ pc' = [pc EXCEPT ![c] = [Idle EXCEPT !.at = "active.get",
                                             !.name = "get_active_users",
                                             !.key = ACTIVE_KEY, !.ret = hit.value]]
            /\ locks' = [locks EXCEPT ![TableLock] = c]
            /\ trace' = trace \o <<Call(c, ACTIVE_KEY), Event(c, "redis", "get", ACTIVE_KEY)>>
            /\ UNCHANGED <<cache, redis, dos, socket_address>>
    /\ UNCHANGED <<pool_name, now, op, result, calls>>

\* get_active_users that answers from the local map when the sink has nobody
active_users_read_LocalMap(c) ==
    /\ pc[c].at = "active.get"
    /\ ~ThreadBlocked
    /\ \E up \in BOOLEAN :
        LET got == ActiveUsers(redis, up)
            users == IF got = None \/ got = Some({}) THEN None ELSE got
            local == {u \in Users : socket_address[u] # None}
        IN  /\ cache' = IF users = None THEN cache
                        ELSE UpdateFor(cache, ACTIVE_KEY, users[1], ActExpires, ActRefresh, now)
            /\ Return(c, IF pc[c].ret # None THEN pc[c].ret
                         ELSE IF users = None THEN Some(local) ELSE users)
    /\ UNCHANGED <<pool_name, redis, dos, now, op, result, calls, socket_address>>

\* ActTask._read_data returned: nobody is None; the Cache Pool takes what was
\* found, and get_active_users returns it, the stale set it had, or set()
active_users_read(c) ==
    /\ pc[c].at = "active.get"
    /\ ~ThreadBlocked
    /\ \E up \in BOOLEAN :
        LET got == ActiveUsers(redis, up)
            users == IF got = None \/ got = Some({}) THEN None ELSE got
        IN  /\ cache' = IF users = None THEN cache
                        ELSE UpdateFor(cache, ACTIVE_KEY, users[1], ActExpires, ActRefresh, now)
            /\ Return(c, IF pc[c].ret # None THEN pc[c].ret
                         ELSE IF users = None THEN Some({}) ELSE users)
    /\ UNCHANGED <<pool_name, redis, dos, now, op, result, calls, socket_address>>

\* the socket addresses a station that ran before may have left in the sink
LeftSockets == Option({{a} : a \in Addresses})

InitStation ==
    /\ pool_name = "session"
    /\ cache = [k \in {ACTIVE_KEY} |-> None]
    /\ redis \in [Users -> LeftSockets]
    /\ dos = [u \in Users |-> None]
    /\ now = 0
    /\ op = [name |-> "init", key |-> "u1", arg |-> None, at |-> 0]
    /\ result = [raised |-> FALSE, value |-> None]
    /\ calls = <<>>
    /\ Quiet

NextStation ==
    \/ Tick
    \/ prepare
    \/ socket_addresses_cleared
    \/ prepare_continues
    \/ \E c \in Callers, u \in Users, a \in Addresses :
        Serving(c) /\ add_socket_address(c, u, a)
    \/ \E c \in Callers, u \in Users, a \in Addresses :
        Serving(c) /\ remove_socket_address(c, u, a)
    \/ \E c \in Callers : socket_addresses_saved(c)
    \/ \E c \in Callers : Serving(c) /\ get_active_users(c)
    \/ \E c \in Callers : active_users_read(c)

SpecStation == InitStation /\ [][NextStation]_vars

-----------------------------------------------------------------------------
(* Address-Name registry (AddressNameTable, pool 'ans').  The Cache Pool     *)
(* holds three kinds of entries: name -> ID, ID -> set of names, and the     *)
(* whole registry under ALL_KEY.  The volatile sink holds the single         *)
(* records, the durable sink the registry as one blob.                       *)

Names == {"alice"}
IDs == {"idA", "idB"}

\* AllTask.ALL_KEY
ALL_KEY == "all_records"

\* a name the registry does not hold
NoID == "-"

\* Dict[str, ID]
Records == [Names -> IDs \cup {NoID}]
NoRecords == [n \in Names |-> NoID]

\* get_names(records, identifier)
get_names_of(records, identifier) == {key \in Names : records[key] = identifier}

\* AddressNameCache.get_names: the names the volatile sink holds for the
\* identifier, absent when it holds none or cannot be reached
RedisNames(r, identifier, up) ==
    LET strings == {key \in Names : r[key] = Some(identifier)} IN
    IF up /\ strings # {} THEN Some(strings) ELSE None

\* DbTask.load of a task of one sink, whose _read_data returned rd
LoadVia(c, key, t, rd, sink) ==
    LET hit == Fetch(c, key, t)
        filled == IF rd = None THEN c ELSE Update(c, key, rd[1], CacheExpires, t)
    IN  IF hit.value # None /\ ~hit.needsRefresh
        THEN [value |-> hit.value, cache |-> c, calls |-> <<>>]
        ELSE [value |-> IF hit.value # None THEN hit.value ELSE rd,
              cache |-> filled,
              calls |-> <<[by |-> "read", sink |-> sink, fn |-> "get", key |-> key,
                           ok |-> rd # None]>>]

\* AddressNameTable._load_records / AllTask.load: None when no tier has the blob
LoadRecords(c, d, t, up) == LoadVia(c, ALL_KEY, t, SinkGet(d, ALL_KEY, up), "dos")

\* which sink calls of one operation are answered
AnsAvail == [rget : BOOLEAN, dget : BOOLEAN, rsave : BOOLEAN, dsave : BOOLEAN]

\* what a call of the registry leaves
AnsEnds(outs, name, key, arg) ==
    /\ pool_name = "ans"
    /\ \E out \in outs :
        /\ cache' = out.cache
        /\ redis' = out.redis
        /\ dos' = out.dos
        /\ calls' = out.calls
        /\ result' = [raised |-> FALSE, value |-> out.value]
    /\ op' = [name |-> name, key |-> key, arg |-> arg, at |-> now]
    /\ UNCHANGED <<conc, pool_name, now>>

\* save_record without "self.cache.erase(key=identifier)"
RecordSaved_NoErase(name, identifier, c, r, d, t, av) ==
    LET ld == LoadRecords(c, d, t, av.dget)
        old == IF ld.value = None THEN NoRecords ELSE ld.value[1]
        all_records == [old EXCEPT ![name] = identifier]
    IN  [cache |-> Update(ld.cache, ALL_KEY, all_records, CacheExpires, t),
         redis |-> SinkSave(r, name, identifier, av.rsave),
         dos |-> SinkSave(d, ALL_KEY, all_records, av.dsave),
         calls |-> ld.calls \o
              <<[by |-> "write", sink |-> "redis", fn |-> "save", key |-> name,
                 ok |-> av.rsave],
                [by |-> "write", sink |-> "dos", fn |-> "save", key |-> ALL_KEY,
                 ok |-> av.dsave]>>,
         value |-> av.dsave]

\* save_record that reports the volatile write when the durable one failed
RecordSaved_EitherSink(name, identifier, c, r, d, t, av) ==
    LET erased == Erase(c, identifier)
        ld == LoadRecords(erased, d, t, av.dget)
        old == IF ld.value = None THEN NoRecords ELSE ld.value[1]
        all_records == [old EXCEPT ![name] = identifier]
    IN  [cache |-> Update(ld.cache, ALL_KEY, all_records, CacheExpires, t),
         redis |-> SinkSave(r, name, identifier, av.rsave),
         dos |-> SinkSave(d, ALL_KEY, all_records, av.dsave),
         calls |-> ld.calls \o
              <<[by |-> "write", sink |-> "redis", fn |-> "save", key |-> name,
                 ok |-> av.rsave],
                [by |-> "write", sink |-> "dos", fn |-> "save", key |-> ALL_KEY,
                 ok |-> av.dsave]>>,
         value |-> av.rsave \/ av.dsave]

\* AddressNameTable.save_record: what the call leaves
RecordSaved(name, identifier, c, r, d, t, av) ==
    LET erased == Erase(c, identifier)
        ld == LoadRecords(erased, d, t, av.dget)
        old == IF ld.value = None THEN NoRecords ELSE ld.value[1]
        all_records == [old EXCEPT ![name] = identifier]
    IN  [cache |-> Update(ld.cache, ALL_KEY, all_records, CacheExpires, t),
         redis |-> SinkSave(r, name, identifier, av.rsave),
         dos |-> SinkSave(d, ALL_KEY, all_records, av.dsave),
         calls |-> ld.calls \o
              <<[by |-> "write", sink |-> "redis", fn |-> "save", key |-> name,
                 ok |-> av.rsave],
                [by |-> "write", sink |-> "dos", fn |-> "save", key |-> ALL_KEY,
                 ok |-> av.dsave]>>,
         value |-> av.dsave]

\* AddressNameTable.save_record
save_record(name, identifier) ==
    AnsEnds({RecordSaved(name, identifier, cache, redis, dos, now, av) : av \in AnsAvail},
            "save_record", name, Some(identifier))

\* get_record that caches only the identifiers it finds
RecordGot_NoNegative(name, c, r, d, t, av) ==
    LET held == c[name] # None /\ c[name][1].value = NoID
        ld == LoadVia(IF held THEN Erase(c, name) ELSE c,
                      name, t, SinkGet(r, name, av.rget), "redis")
        al == LoadRecords(ld.cache, d, t, av.dget)
        did == IF al.value = None THEN NoID ELSE al.value[1][name]
    IN  IF ld.value # None
        THEN [cache |-> ld.cache, redis |-> r, dos |-> d, calls |-> ld.calls,
              value |-> ld.value]
        ELSE [cache |-> IF did # NoID THEN Update(al.cache, name, did, CacheExpires, t)
                        ELSE al.cache,
              redis |-> IF did # NoID THEN SinkSave(r, name, did, av.rsave) ELSE r,
              dos |-> d,
              calls |-> ld.calls \o al.calls \o
                   (IF did # NoID
                    THEN <<[by |-> "read", sink |-> "redis", fn |-> "save",
                            key |-> name, ok |-> av.rsave]>>
                    ELSE <<>>),
              value |-> IF did = NoID THEN None ELSE Some(did)]

\* AddressNameTable.get_record: what the call leaves
RecordGot(name, c, r, d, t, av) ==
    LET \* 1. get record with name: an entry holding None is no value
        held == c[name] # None /\ c[name][1].value = NoID
        ld == LoadVia(IF held THEN Erase(c, name) ELSE c,
                      name, t, SinkGet(r, name, av.rget), "redis")
        \* 2. load all records
        al == LoadRecords(ld.cache, d, t, av.dget)
        did == IF al.value = None THEN NoID ELSE al.value[1][name]
    IN  IF ld.value # None
        THEN [cache |-> ld.cache, redis |-> r, dos |-> d, calls |-> ld.calls,
              value |-> ld.value]
        ELSE \* 3. update memory cache
             [cache |-> Update(al.cache, name, did, CacheExpires, t),
              redis |-> IF did # NoID THEN SinkSave(r, name, did, av.rsave) ELSE r,
              dos |-> d,
              calls |-> ld.calls \o al.calls \o
                   (IF did # NoID
                    THEN <<[by |-> "read", sink |-> "redis", fn |-> "save",
                            key |-> name, ok |-> av.rsave]>>
                    ELSE <<>>),
              value |-> IF did = NoID THEN None ELSE Some(did)]

\* AddressNameTable.get_record
get_record(name) ==
    AnsEnds({RecordGot(name, cache, redis, dos, now, av) : av \in AnsAvail},
            "get_record", name, None)

\* get_names without "3. update memory cache"
NamesGot_NoCache(identifier, c, r, d, t, av) ==
    LET ld == LoadVia(c, identifier, t, RedisNames(r, identifier, av.rget), "redis")
        al == LoadRecords(ld.cache, d, t, av.dget)
        names == IF al.value = None THEN {}
                 ELSE get_names_of(al.value[1], identifier)
    IN  IF ld.value # None
        THEN [cache |-> ld.cache, redis |-> r, dos |-> d, calls |-> ld.calls,
              value |-> ld.value[1]]
        ELSE [cache |-> al.cache,
              redis |-> r, dos |-> d,
              calls |-> ld.calls \o al.calls,
              value |-> names]

\* AddressNameTable.get_names: what the call leaves
NamesGot(identifier, c, r, d, t, av) ==
    LET \* 1. get names for id
        ld == LoadVia(c, identifier, t, RedisNames(r, identifier, av.rget), "redis")
        \* 2. load all records
        al == LoadRecords(ld.cache, d, t, av.dget)
        names == IF al.value = None THEN {}
                 ELSE get_names_of(al.value[1], identifier)
    IN  IF ld.value # None
        THEN [cache |-> ld.cache, redis |-> r, dos |-> d, calls |-> ld.calls,
              value |-> ld.value[1]]
        ELSE \* 3. update memory cache
             [cache |-> Update(al.cache, identifier, names, CacheExpires, t),
              redis |-> r, dos |-> d,
              calls |-> ld.calls \o al.calls,
              value |-> names]

\* AddressNameTable.get_names
get_names(identifier) ==
    AnsEnds({NamesGot(identifier, cache, redis, dos, now, av) : av \in AnsAvail},
            "get_names", identifier, None)

InitAns ==
    /\ pool_name = "ans"
    /\ cache = [k \in Names \cup IDs \cup {ALL_KEY} |-> None]
    /\ redis = [n \in Names |-> None]
    /\ dos \in [{ALL_KEY} -> Option(Records)]
    /\ now = 0
    /\ op = [name |-> "init", key |-> "none", arg |-> None, at |-> 0]
    /\ result = [raised |-> FALSE, value |-> None]
    /\ calls = <<>>
    /\ Quiet

NextAns ==
    \/ Tick
    \/ \E n \in Names, i \in IDs : save_record(n, i)
    \/ \E i \in IDs : get_names(i)

SpecAns == InitAns /\ [][NextAns]_vars

\* the registry read by name
NextAnsRecord ==
    \/ Tick
    \/ \E n \in Names, i \in IDs : save_record(n, i)
    \/ \E n \in Names : get_record(n)

SpecAnsRecord == InitAns /\ [][NextAnsRecord]_vars

-----------------------------------------------------------------------------
(* Concurrent callers of the name registry.  save_record holds the Table's   *)
(* mutex from its first line to its return, across three sink calls, and     *)
(* AllTask.load takes the same mutex inside it.  The mutex is created by     *)
(* DataCache, a threading.Lock or a threading.RLock (AnsTask.__init__): a    *)
(* Lock taken twice blocks the thread of the event loop, an RLock lets in    *)
(* every coroutine of the thread that owns it.  A dict is an object: the     *)
(* Cache Pool and the callers that loaded it from the Cache Pool hold the    *)
(* same one.                                                                 *)

BothNames == {"alice", "bob"}

\* the two callers of save_record
Savers == {1, 2}

\* the bindings the concurrent callers save
Bindings == {<<"alice", "idA">>, <<"bob", "idB">>}

\* the registries the storage may hold when the process starts
NoBinding == [n \in BothNames |-> NoID]
StoredRecords == {NoBinding, [NoBinding EXCEPT !["alice"] = "idB"]}

\* a dict object: the caller that created it, and what it holds
Dict(c, records) == [obj |-> c, records |-> records]

\* all_records[name] = identifier, as a holder v of a dict sees it
Assigned(v, obj, name, identifier) ==
    IF v # None /\ v[1].obj = obj
    THEN Some([v[1] EXCEPT !.records[name] = identifier])
    ELSE v

\* save_record from "all_records[name] = identifier" to its first sink write;
\* all_records is the dict _load_records returned, pool the Cache Pool it left,
\* up whether the sink read of _load_records, if any, was answered
RecordAssigned(c, name, arg, all_records, pool, up) ==
    LET assigned == [all_records EXCEPT !.records[name] = arg.identifier]
        seen == [d \in Callers |->
                    [pc[d] EXCEPT !.val = Assigned(@, all_records.obj, name,
                                                   arg.identifier)]]
    IN  /\ cache' = Update(pool, ALL_KEY, assigned, CacheExpires, arg.now)
        /\ pc' = [seen EXCEPT ![c] = [Idle EXCEPT !.at = "record.redis",
                                                  !.name = "save_record",
                                                  !.key = name, !.arg = Some(arg),
                                                  !.val = Some(assigned),
                                                  !.ok = up]]

\* save_record called: "with self.lock:", the erase, and _load_records up to
\* the sink read of AllTask.load
record_called(c, name, identifier) ==
    LET arg == [identifier |-> identifier, now |-> now]
        erased == Erase(cache, identifier)
        hit == Fetch(erased, ALL_KEY, now)
    IN  /\ pool_name = "ans"
        /\ Arrives(c)
        /\ ~ThreadBlocked
        /\ trace' = Append(trace, Call(c, name))
        /\ locks' = [locks EXCEPT ![TableLock] = c]
        /\ \/ \* threading.Lock: AllTask.load waits for the mutex its caller holds
              /\ \A d \in Callers : pc[d].at = "idle"
              /\ cache' = erased
              /\ pc' = [pc EXCEPT ![c] = [Idle EXCEPT !.at = "blocked",
                                                      !.name = "save_record",
                                                      !.key = name, !.arg = Some(arg)]]
           \/ \* threading.RLock: the thread of the event loop owns the mutex
              /\ \A d \in Callers : pc[d].at # "blocked"
              /\ IF hit.value # None /\ ~hit.needsRefresh
                 THEN RecordAssigned(c, name, arg, hit.value[1], erased, TRUE)
                 ELSE /\ cache' = erased
                      /\ pc' = [pc EXCEPT ![c] = [Idle EXCEPT !.at = "records.load",
                                                              !.name = "save_record",
                                                              !.key = name,
                                                              !.arg = Some(arg),
                                                              !.val = hit.value]]
        /\ UNCHANGED <<pool_name, redis, dos, now, op, result, calls, socket_address>>

\* load_records returned: the end of AllTask.load, and save_record up to its
\* first sink write
records_loaded(c) ==
    /\ pc[c].at = "records.load"
    /\ ~ThreadBlocked
    /\ \E up \in BOOLEAN :
        LET rd == SinkGet(dos, ALL_KEY, up)
            read == Dict(c, IF rd = None THEN NoBinding ELSE rd[1])
            filled == IF rd = None THEN cache
                      ELSE Update(cache, ALL_KEY, read, CacheExpires, now)
        IN  RecordAssigned(c, pc[c].key, pc[c].arg[1],
                           IF pc[c].val # None THEN pc[c].val[1] ELSE read, filled, up)
    /\ UNCHANGED <<pool_name, redis, dos, now, op, result, calls, socket_address,
                   locks, trace>>

\* AddressNameCache.save_record returned
record_mirrored(c) ==
    /\ pc[c].at = "record.redis"
    /\ ~ThreadBlocked
    /\ \E up \in BOOLEAN :
        /\ redis' = SinkSave(redis, pc[c].key, pc[c].arg[1].identifier, up)
        /\ pc' = [pc EXCEPT ![c].at = "records.save", ![c].ok = @ /\ up]
    /\ UNCHANGED <<pool_name, cache, dos, now, op, result, calls, socket_address,
                   locks, trace>>

\* AddressNameStorage.save_records returned: the end of save_record
records_saved(c) ==
    /\ pc[c].at = "records.save"
    /\ ~ThreadBlocked
    /\ \E up \in BOOLEAN :
        /\ dos' = SinkSave(dos, ALL_KEY, pc[c].val[1].records, up)
        /\ pc' = [pc EXCEPT ![c].at = "done", ![c].ret = Some(up)]
    /\ locks' = [locks EXCEPT ![TableLock] = Free]
    /\ trace' = Append(trace, Event(c, "table", "return", pc[c].key))
    /\ UNCHANGED <<pool_name, cache, redis, now, op, result, calls, socket_address>>

InitAnsConc ==
    /\ pool_name = "ans"
    /\ cache = [k \in IDs \cup {ALL_KEY} |-> None]
    /\ redis = [n \in BothNames |-> None]
    /\ dos \in [{ALL_KEY} -> Option(StoredRecords)]
    /\ now = 0
    /\ op = [name |-> "init", key |-> "none", arg |-> None, at |-> 0]
    /\ result = [raised |-> FALSE, value |-> None]
    /\ calls = <<>>
    /\ Quiet

NextAnsConc ==
    \/ Tick
    \/ \E c \in Savers, b \in Bindings : record_called(c, b[1], b[2])
    \/ \E c \in Callers : records_loaded(c)
    \/ \E c \in Callers : record_mirrored(c)
    \/ \E c \in Callers : records_saved(c)

SpecAnsConc == InitAnsConc /\ [][NextAnsConc]_vars

-----------------------------------------------------------------------------
(* Concurrent add_device calls on the DeviceTable.  add_device is           *)
(* get_devices, insert_device, save_devices: the load and the save each take *)
(* the Table's mutex (a threading.Lock, t_device.py:44) for themselves, and  *)
(* add_device takes none around the two.                                     *)

\* the device a caller registers
AddedBy(c) == IF c = 1 THEN "d1" ELSE "d2"

\* insert_device: a device already in the list is replaced in place, a new one
\* joins the list and the order of the others is kept
insert_device(info, devices) ==
    IF \E i \in DOMAIN devices : devices[i] = info THEN devices
    ELSE Append(devices, info)

\* add_device after get_devices returned array: the list to save
DevicesMerged(device, array) ==
    IF array = None THEN <<device>> ELSE insert_device(device, array[1])

\* get_devices of add_device returned value from its cascade: the Cache Pool
\* takes a value that was found, the mutex is released; add_device merges the
\* device into the value (or into the stale value the load had) and
\* save_devices takes the mutex again, up to its first sink call.  Nothing
\* awaits between the two
DevicesLoaded(c, value, up) ==
    LET array == IF pc[c].ret # None THEN pc[c].ret ELSE value IN
    /\ cache' = IF value = None THEN cache
                ELSE Update(cache, pc[c].key, value[1], CacheExpires, now)
    /\ pc' = [pc EXCEPT ![c].at = "devices.redis.save",
                        ![c].arg = Some(DevicesMerged(AddedBy(c), array)),
                        ![c].ok = @ /\ up]
    /\ UNCHANGED locks

\* add_device called: get_devices up to its first sink call or, when the
\* Cache Pool has the list, save_devices up to its first sink call
add_device(c, identifier) ==
    LET task == NewTask(c)
        hit == Fetch(cache, identifier, now)
        called == [Idle EXCEPT !.name = "add_device", !.key = identifier,
                               !.arg = Some(<<AddedBy(c)>>), !.ok = TRUE,
                               !.lock = task.mutex_lock]
    IN  /\ pool_name = "devices"
        /\ Arrives(c)
        /\ ~ThreadBlocked
        /\ trace' = Append(trace, Call(c, identifier))
        /\ IF locks[task.mutex_lock] # Free
           THEN /\ pc' = [pc EXCEPT ![c] = [called EXCEPT !.at = "blocked"]]
                /\ UNCHANGED locks
           ELSE /\ pc' = [pc EXCEPT ![c] =
                            IF hit.value # None /\ ~hit.needsRefresh
                            THEN [called EXCEPT
                                    !.at = "devices.redis.save",
                                    !.arg = Some(DevicesMerged(AddedBy(c), hit.value))]
                            ELSE [called EXCEPT !.at = "devices.redis.get",
                                                !.ret = hit.value]]
                /\ locks' = [locks EXCEPT ![task.mutex_lock] = c]
        /\ UNCHANGED <<pool_name, cache, redis, dos, now, op, result, calls,
                       socket_address>>

\* DevTask._read_data of add_device: the volatile sink answered
devices_redis_got(c) ==
    /\ pc[c].at = "devices.redis.get"
    /\ ~ThreadBlocked
    /\ \E up \in BOOLEAN :
        LET v1 == SinkGet(redis, pc[c].key, up) IN
        IF Found(pool_name, v1)
        THEN DevicesLoaded(c, v1, up)
        ELSE /\ pc' = [pc EXCEPT ![c].at = "devices.dos.get", ![c].ok = @ /\ up]
             /\ UNCHANGED <<cache, locks>>
    /\ UNCHANGED <<pool_name, redis, dos, now, op, result, calls, socket_address,
                   trace>>

\* DevTask._read_data of add_device: the durable sink answered
devices_dos_got(c) ==
    /\ pc[c].at = "devices.dos.get"
    /\ ~ThreadBlocked
    /\ \E up \in BOOLEAN :
        LET v2 == SinkGet(dos, pc[c].key, up) IN
        IF Found(pool_name, v2)
        THEN /\ pc' = [pc EXCEPT ![c].at = "devices.redis.fill", ![c].val = v2]
             /\ UNCHANGED <<cache, locks>>
        ELSE DevicesLoaded(c, None, up)
    /\ UNCHANGED <<pool_name, redis, dos, now, op, result, calls, socket_address,
                   trace>>

\* DevTask._read_data of add_device: the back-fill of the volatile sink
\* returned
devices_filled(c) ==
    /\ pc[c].at = "devices.redis.fill"
    /\ ~ThreadBlocked
    /\ \E up \in BOOLEAN :
        /\ redis' = SinkSave(redis, pc[c].key, pc[c].val[1], up)
        /\ DevicesLoaded(c, pc[c].val, up)
    /\ UNCHANGED <<pool_name, dos, now, op, result, calls, socket_address, trace>>

\* DevTask._write_data of add_device: the volatile write returned ok1
devices_redis_saved(c) ==
    /\ pc[c].at = "devices.redis.save"
    /\ ~ThreadBlocked
    /\ \E ok1 \in BOOLEAN :
        /\ redis' = SinkSave(redis, pc[c].key, pc[c].arg[1], ok1)
        /\ pc' = [pc EXCEPT ![c].at = "devices.dos.save", ![c].val = Some(ok1),
                            ![c].ok = @ /\ ok1]
    /\ UNCHANGED <<pool_name, cache, dos, now, op, result, calls, socket_address,
                   locks, trace>>

\* DevTask._write_data of add_device: the durable write returned ok2;
\* DbTask.save updates the Cache Pool, and add_device returns ok1 or ok2
devices_dos_saved(c) ==
    /\ pc[c].at = "devices.dos.save"
    /\ ~ThreadBlocked
    /\ \E ok2 \in BOOLEAN :
        /\ dos' = SinkSave(dos, pc[c].key, pc[c].arg[1], ok2)
        /\ pc' = [pc EXCEPT ![c].at = "done", ![c].ret = Some(pc[c].val[1] \/ ok2),
                            ![c].ok = @ /\ ok2]
    /\ cache' = Update(cache, pc[c].key, pc[c].arg[1], CacheExpires, now)
    /\ locks' = [locks EXCEPT ![pc[c].lock] = Free]
    /\ trace' = Append(trace, Event(c, "table", "return", pc[c].key))
    /\ UNCHANGED <<pool_name, redis, now, op, result, calls, socket_address>>

InitDevConc ==
    /\ pool_name = "devices"
    /\ cache = [u \in Users |-> None]
    /\ redis \in [Users -> Option(DeviceLists)]
    /\ dos \in [Users -> Option(DeviceLists)]
    /\ now = 0
    /\ op = [name |-> "init", key |-> "u1", arg |-> None, at |-> 0]
    /\ result = [raised |-> FALSE, value |-> None]
    /\ calls = <<>>
    /\ Quiet

NextDevConc ==
    \/ Tick
    \/ \E c \in Savers, u \in Users : add_device(c, u)
    \/ \E c \in Callers : devices_redis_got(c)
    \/ \E c \in Callers : devices_dos_got(c)
    \/ \E c \in Callers : devices_filled(c)
    \/ \E c \in Callers : devices_redis_saved(c)
    \/ \E c \in Callers : devices_dos_saved(c)

SpecDevConc == InitDevConc /\ [][NextDevConc]_vars

-----------------------------------------------------------------------------
(* refresh_neighbors: the stations of the default provider in the database   *)
(* are brought in line with the neighbors of the configuration when the      *)
(* station starts.  The configuration is held in cache.neighbors, the        *)
(* stations of the session database in dos, by provider; the database calls  *)
(* the function issues are recorded in calls.                                *)

\* ProviderInfo.GSP
GSP == "gsp"

MaxNeighbors == 2   \* the longest list of configured neighbors

\* a station or a configured neighbor: its host and its port
Nodes == {[host |-> "h1", port |-> 1], [host |-> "h1", port |-> 2],
          [host |-> "h2", port |-> 1]}

\* the lists of configured neighbors
NeighborLists == UNION {[1..n -> Nodes] : n \in 0..MaxNeighbors}

\* the orders in which all_stations may list the stations S
Orders(S) == {s \in [1..Cardinality(S) -> S] : {s[k] : k \in DOMAIN s} = S}

\* the comparison of a neighbor with a station, both only ports
SameNode_PortOnly(item, old) == item.port = old.port

\* the comparison of a neighbor with a station
SameNode(item, old) == item.port = old.port /\ item.host = old.host

\* 1. the stations of old_stations that no neighbor matches
Vanished(old_stations, neighbors) ==
    {k \in DOMAIN old_stations :
        ~\E n \in DOMAIN neighbors : SameNode(neighbors[n], old_stations[k])}

\* 2. the neighbors that no station of old_stations matches
NewNodes(neighbors, old_stations) ==
    {n \in DOMAIN neighbors :
        ~\E k \in DOMAIN old_stations : SameNode(old_stations[k], neighbors[n])}

First(S) == CHOOSE k \in S : \A m \in S : k <= m

\* where refresh_neighbors awaits next: the first loop from old_stations[i] on
\* (i = 0: the loop is over), then the second loop from neighbors[n] on
Position(old_stations, neighbors, i, n) ==
    LET vanished == {k \in Vanished(old_stations, neighbors) : k >= i}
        new == {k \in NewNodes(neighbors, old_stations) : k >= n}
    IN  IF i > 0 /\ vanished # {}
        THEN [at |-> "remove_station", i |-> First(vanished), n |-> 1,
              node |-> Some(old_stations[First(vanished)])]
        ELSE IF new # {}
        THEN [at |-> "add_station", i |-> 0, n |-> First(new),
              node |-> Some(neighbors[First(new)])]
        ELSE [at |-> "done", i |-> 0, n |-> 0, node |-> None]

\* refresh_neighbors goes on to its next await, or returns the neighbors
Resume(old_stations, i, n, up) ==
    LET to == Position(old_stations, cache.neighbors, i, n) IN
    /\ pc' = [pc EXCEPT ![Main].at = to.at,
                        ![Main].val = [@ EXCEPT !.old_stations = old_stations,
                                                !.i = to.i, !.n = to.n],
                        ![Main].ok = @ /\ up,
                        ![Main].ret = IF to.at = "done" THEN Some(cache.neighbors)
                                      ELSE None]
    /\ calls' = IF to.at = "done" THEN calls
                ELSE Append(calls, [fn |-> to.at, node |-> to.node[1]])

\* refresh_neighbors called: up to 'await database.all_stations(...)', or to
\* its return when no neighbor is configured
refresh_neighbors ==
    /\ pc[Main].at = "idle"
    /\ pc' = [pc EXCEPT ![Main] =
                [Idle EXCEPT !.name = "refresh_neighbors", !.key = GSP, !.ok = TRUE,
                             !.val = [stored |-> dos[GSP], old_stations |-> <<>>,
                                      i |-> 0, n |-> 0],
                             !.at = IF Len(cache.neighbors) > 0 THEN "all_stations"
                                    ELSE "done",
                             !.ret = IF Len(cache.neighbors) > 0 THEN None
                                     ELSE Some(cache.neighbors)]]
    /\ calls' = IF Len(cache.neighbors) > 0
                THEN Append(calls, [fn |-> "all_stations", node |-> GSP])
                ELSE calls
    /\ UNCHANGED <<pool_name, cache, redis, dos, now, op, result, socket_address,
                   locks, trace>>

\* all_stations returned old_stations (nothing when the database did not
\* answer)
all_stations ==
    /\ pc[Main].at = "all_stations"
    /\ \E up \in BOOLEAN :
        \E old_stations \in IF up THEN Orders(dos[GSP]) ELSE {<<>>} :
            Resume(old_stations, 1, 1, up)
    /\ UNCHANGED <<pool_name, cache, redis, dos, now, op, result, socket_address,
                   locks, trace>>

\* remove_station returned: the station is gone when the database took the
\* call
remove_station ==
    LET val == pc[Main].val
        old == val.old_stations[val.i]
    IN  /\ pc[Main].at = "remove_station"
        /\ \E up \in BOOLEAN :
            /\ dos' = IF up THEN [dos EXCEPT ![GSP] = @ \ {old}] ELSE dos
            /\ Resume(val.old_stations, val.i + 1, 1, up)
        /\ UNCHANGED <<pool_name, cache, redis, now, op, result, socket_address,
                       locks, trace>>

\* add_station returned: the station is stored when the database took the call
add_station ==
    LET val == pc[Main].val
        node == cache.neighbors[val.n]
    IN  /\ pc[Main].at = "add_station"
        /\ \E up \in BOOLEAN :
            /\ dos' = IF up THEN [dos EXCEPT ![GSP] = @ \cup {node}] ELSE dos
            /\ Resume(val.old_stations, 0, val.n + 1, up)
        /\ UNCHANGED <<pool_name, cache, redis, now, op, result, socket_address,
                       locks, trace>>

InitNeighbors ==
    /\ pool_name = "stations"
    /\ cache \in [neighbors : NeighborLists]
    /\ redis = [p \in {GSP} |-> None]
    /\ dos \in [{GSP} -> SUBSET Nodes]
    /\ now = 0
    /\ op = [name |-> "init", key |-> "none", arg |-> None, at |-> 0]
    /\ result = [raised |-> FALSE, value |-> None]
    /\ calls = <<>>
    /\ Quiet

NextNeighbors ==
    \/ refresh_neighbors
    \/ all_stations
    \/ remove_station
    \/ add_station

SpecNeighbors == InitNeighbors /\ [][NextNeighbors]_vars

-----------------------------------------------------------------------------
(* The registry when a name is the string 'all_records'.  IdTask uses the    *)
(* name as its cache key and AllTask uses ALL_KEY, in the one Cache Pool of  *)
(* the Table: the entry under 'all_records' holds a dict, an identifier or   *)
(* None, whichever was put there last.  The sinks answer every call.         *)

KeyNames == {"alice", ALL_KEY}

\* Dict[str, ID] over these names
NoKeyRecords == [n \in KeyNames |-> NoID]
KeyRecords == [KeyNames -> IDs \cup {NoID}]

\* a value of the Cache Pool with its python type: "dict", "id" or "none"
Held(is, v) == [is |-> is, v |-> v]

\* isinstance(value, ID) / isinstance(value, Dict) of what a load returned
IsInstance(value, is) == value # None /\ value[1].is = is

\* every sink call is answered
Reachable == [rget |-> TRUE, dget |-> TRUE, rsave |-> TRUE, dsave |-> TRUE]

\* DbTask.load: an entry that holds None is no value
TaskLoad(c, key, t, rd, is, sink) ==
    LoadVia(IF c[key] # None /\ c[key][1].value.is = "none" THEN Erase(c, key) ELSE c,
            key, t, IF rd = None THEN None ELSE Some(Held(is, rd[1])), sink)

\* AddressNameTable.save_record: what the call leaves
KeyRecordSaved(name, identifier, c, r, d, t, av) ==
    LET erased == Erase(c, identifier)
        ld == TaskLoad(erased, ALL_KEY, t, SinkGet(d, ALL_KEY, av.dget), "dict", "dos")
        old == IF ld.value = None THEN NoKeyRecords ELSE ld.value[1].v
        all_records == [old EXCEPT ![name] = identifier]
    IN  IF IsInstance(ld.value, "id")
        THEN \* all_records[name] = identifier, all_records an ID: TypeError
             [cache |-> ld.cache, redis |-> r, dos |-> d, calls |-> ld.calls,
              value |-> FALSE, raised |-> TRUE]
        ELSE [cache |-> Update(ld.cache, ALL_KEY, Held("dict", all_records),
                               CacheExpires, t),
              redis |-> SinkSave(r, name, identifier, av.rsave),
              dos |-> SinkSave(d, ALL_KEY, all_records, av.dsave),
              calls |-> ld.calls \o
                   <<[by |-> "write", sink |-> "redis", fn |-> "save", key |-> name,
                      ok |-> av.rsave],
                     [by |-> "write", sink |-> "dos", fn |-> "save", key |-> ALL_KEY,
                      ok |-> av.dsave]>>,
              value |-> av.dsave, raised |-> FALSE]

\* AddressNameTable.get_record: what the call leaves
KeyRecordGot(name, c, r, d, t, av) ==
    LET \* 1. get record with name
        ld == TaskLoad(c, name, t, SinkGet(r, name, av.rget), "id", "redis")
        \* 2. load all records
        al == TaskLoad(ld.cache, ALL_KEY, t, SinkGet(d, ALL_KEY, av.dget), "dict", "dos")
        did == IF IsInstance(al.value, "dict") THEN al.value[1].v[name] ELSE NoID
    IN  IF IsInstance(ld.value, "id")
        THEN [cache |-> ld.cache, redis |-> r, dos |-> d, calls |-> ld.calls,
              value |-> Some(ld.value[1].v), raised |-> FALSE]
        ELSE \* 3. update memory cache
             [cache |-> Update(al.cache, name,
                               IF did = NoID THEN Held("none", NoID) ELSE Held("id", did),
                               CacheExpires, t),
              redis |-> IF did # NoID THEN SinkSave(r, name, did, av.rsave) ELSE r,
              dos |-> d,
              calls |-> ld.calls \o al.calls \o
                   (IF did # NoID
                    THEN <<[by |-> "read", sink |-> "redis", fn |-> "save",
                            key |-> name, ok |-> av.rsave]>>
                    ELSE <<>>),
              value |-> IF did = NoID THEN None ELSE Some(did), raised |-> FALSE]

\* what a call of this registry leaves
KeysEnds(out, name, key, arg) ==
    /\ pool_name = "ans"
    /\ cache' = out.cache
    /\ redis' = out.redis
    /\ dos' = out.dos
    /\ calls' = out.calls
    /\ result' = [raised |-> out.raised, value |-> out.value]
    /\ op' = [name |-> name, key |-> key, arg |-> arg, at |-> now]
    /\ UNCHANGED <<conc, pool_name, now>>

\* AddressNameTable.save_record
save_key_record(name, identifier) ==
    KeysEnds(KeyRecordSaved(name, identifier, cache, redis, dos, now, Reachable),
             "save_record", name, Some(identifier))

\* AddressNameTable.get_record
get_key_record(name) ==
    KeysEnds(KeyRecordGot(name, cache, redis, dos, now, Reachable),
             "get_record", name, None)

InitAnsKeys ==
    /\ pool_name = "ans"
    /\ cache = [k \in KeyNames \cup IDs |-> None]
    /\ redis = [n \in KeyNames |-> None]
    /\ dos \in [{ALL_KEY} -> Option(KeyRecords)]
    /\ now = 0
    /\ op = [name |-> "init", key |-> "none", arg |-> None, at |-> 0]
    /\ result = [raised |-> FALSE, value |-> None]
    /\ calls = <<>>
    /\ Quiet

NextAnsKeys ==
    \/ Tick
    \/ \E n \in KeyNames, i \in IDs : save_key_record(n, i)
    \/ \E n \in KeyNames : get_key_record(n)

SpecAnsKeys == InitAnsKeys /\ [][NextAnsKeys]_vars

-----------------------------------------------------------------------------
(* Documents of an identifier, and the scan of all documents *)

\* ScanTask.ALL_KEY
SCAN_ALL_KEY == "all_documents"

\* ScanTask.MEM_CACHE_EXPIRES / MEM_CACHE_REFRESH, in clock units
ScanExpires == 3
ScanRefresh == 2

\* the documents a caller presents, and the lists the storage may hold when the
\* process starts
Documents == {[type |-> "visa", time |-> 1], [type |-> "visa", time |-> 2]}
StoredLists == DocumentLists \cup {<<[type |-> "profile", time |-> 1]>>}

\* DocumentUtils.is_expired(this_doc, old_doc): this_doc is not newer than old_doc
is_expired(this_doc, old_doc) == this_doc.time <= old_doc.time

\* DocumentUtils.last_document(documents, doc_type): the most recent document of
\* the type, None when the list holds none
last_document(documents, doc_type) ==
    LET typed == {i \in DOMAIN documents : documents[i].type = doc_type} IN
    IF typed = {} THEN None
    ELSE LET last == CHOOSE i \in typed : \A j \in typed :
                         \/ documents[j].time < documents[i].time
                         \/ documents[j].time = documents[i].time /\ i <= j
         IN  Some(documents[last])

\* list.remove(x): the list without its first element equal to x
Remove(list, x) ==
    LET i == CHOOSE i \in DOMAIN list : list[i] = x /\ \A j \in 1..(i - 1) : list[j] # x
    IN  SubSeq(list, 1, i - 1) \o SubSeq(list, i + 1, Len(list))

\* save_document that leaves the superseded document in the list
DocumentSaved_KeepOld(document, identifier, c, r, d, t, ra, wa) ==
    LET ld == Load("documents", identifier, c, r, d, t, ra)
        my_documents == IF ld.value = None THEN <<>> ELSE ld.value[1]
        own == last_document(my_documents, document.type)
        old == IF own = None /\ document.type = "visa"
               THEN last_document(my_documents, "profile") ELSE own
        merged == Append(my_documents, document)
        all_documents == Fetch(ld.cache, SCAN_ALL_KEY, t).value
        appended == IF all_documents = None THEN ld.cache
                    ELSE [ld.cache EXCEPT ![SCAN_ALL_KEY][1].value = Append(@, document)]
        sv == Save("documents", identifier, merged, appended, ld.redis, d, t, wa)
    IN  IF old # None /\ is_expired(document, old[1])
        THEN [cache |-> ld.cache, redis |-> ld.redis, dos |-> d, calls |-> ld.calls,
              value |-> FALSE]
        ELSE [cache |-> sv.cache, redis |-> sv.redis, dos |-> sv.dos,
              calls |-> ld.calls \o sv.calls, value |-> sv.ok]

\* save_document that saves whatever the stored document is
DocumentSaved_NoCheck(document, identifier, c, r, d, t, ra, wa) ==
    LET ld == Load("documents", identifier, c, r, d, t, ra)
        my_documents == IF ld.value = None THEN <<>> ELSE ld.value[1]
        own == last_document(my_documents, document.type)
        old == IF own = None /\ document.type = "visa"
               THEN last_document(my_documents, "profile") ELSE own
        merged == Append(IF old = None THEN my_documents ELSE Remove(my_documents, old[1]),
                         document)
        all_documents == Fetch(ld.cache, SCAN_ALL_KEY, t).value
        appended == IF all_documents = None THEN ld.cache
                    ELSE [ld.cache EXCEPT ![SCAN_ALL_KEY][1].value = Append(@, document)]
        sv == Save("documents", identifier, merged, appended, ld.redis, d, t, wa)
    IN  [cache |-> sv.cache, redis |-> sv.redis, dos |-> sv.dos,
         calls |-> ld.calls \o sv.calls, value |-> sv.ok]

\* save_document without the update of the cache for the search engine
DocumentSaved_NoAppend(document, identifier, c, r, d, t, ra, wa) ==
    LET ld == Load("documents", identifier, c, r, d, t, ra)
        my_documents == IF ld.value = None THEN <<>> ELSE ld.value[1]
        own == last_document(my_documents, document.type)
        old == IF own = None /\ document.type = "visa"
               THEN last_document(my_documents, "profile") ELSE own
        merged == Append(IF old = None THEN my_documents ELSE Remove(my_documents, old[1]),
                         document)
        sv == Save("documents", identifier, merged, ld.cache, ld.redis, d, t, wa)
    IN  IF old # None /\ is_expired(document, old[1])
        THEN [cache |-> ld.cache, redis |-> ld.redis, dos |-> d, calls |-> ld.calls,
              value |-> FALSE]
        ELSE [cache |-> sv.cache, redis |-> sv.redis, dos |-> sv.dos,
              calls |-> ld.calls \o sv.calls, value |-> sv.ok]

\* save_document that compares a visa with visas only
DocumentSaved_OwnTypeOnly(document, identifier, c, r, d, t, ra, wa) ==
    LET ld == Load("documents", identifier, c, r, d, t, ra)
        my_documents == IF ld.value = None THEN <<>> ELSE ld.value[1]
        old == last_document(my_documents, document.type)
        merged == Append(IF old = None THEN my_documents ELSE Remove(my_documents, old[1]),
                         document)
        all_documents == Fetch(ld.cache, SCAN_ALL_KEY, t).value
        appended == IF all_documents = None THEN ld.cache
                    ELSE [ld.cache EXCEPT ![SCAN_ALL_KEY][1].value = Append(@, document)]
        sv == Save("documents", identifier, merged, appended, ld.redis, d, t, wa)
    IN  IF old # None /\ is_expired(document, old[1])
        THEN [cache |-> ld.cache, redis |-> ld.redis, dos |-> d, calls |-> ld.calls,
              value |-> FALSE]
        ELSE [cache |-> sv.cache, redis |-> sv.redis, dos |-> sv.dos,
              calls |-> ld.calls \o sv.calls, value |-> sv.ok]

\* DocumentTable.save_document: what the call leaves.  my_documents and
\* all_documents are the lists the Cache Pool holds: remove and append change
\* them in place, and the entry of all_documents keeps its times
DocumentSaved(document, identifier, c, r, d, t, ra, wa) ==
    LET \* check old documents
        ld == Load("documents", identifier, c, r, d, t, ra)
        my_documents == IF ld.value = None THEN <<>> ELSE ld.value[1]
        own == last_document(my_documents, document.type)
        old == IF own = None /\ document.type = "visa"
               THEN last_document(my_documents, "profile") ELSE own
        merged == Append(IF old = None THEN my_documents ELSE Remove(my_documents, old[1]),
                         document)
        \* update cache for Search Engine
        all_documents == Fetch(ld.cache, SCAN_ALL_KEY, t).value
        appended == IF all_documents = None THEN ld.cache
                    ELSE [ld.cache EXCEPT ![SCAN_ALL_KEY][1].value = Append(@, document)]
        \* build task for saving
        sv == Save("documents", identifier, merged, appended, ld.redis, d, t, wa)
    IN  IF old # None /\ is_expired(document, old[1])
        THEN [cache |-> ld.cache, redis |-> ld.redis, dos |-> d, calls |-> ld.calls,
              value |-> FALSE]
        ELSE [cache |-> sv.cache, redis |-> sv.redis, dos |-> sv.dos,
              calls |-> ld.calls \o sv.calls, value |-> sv.ok]

\* DocumentTable.save_document
save_document(document, identifier) ==
    /\ pool_name = "documents"
    /\ \E out \in {DocumentSaved(document, identifier, cache, redis, dos, now, ra, wa) :
                   ra \in ReadAvail, wa \in WriteAvail} :
        /\ cache' = out.cache
        /\ redis' = out.redis
        /\ dos' = out.dos
        /\ calls' = out.calls
        /\ result' = [raised |-> FALSE, value |-> out.value]
    /\ op' = [name |-> "save_document", key |-> identifier, arg |-> Some(document), at |-> now]
    /\ UNCHANGED <<conc, pool_name, now>>

\* DocumentStorage.scan_documents: the documents of every identifier, absent
\* when the storage cannot be reached
ScanData(d, up) ==
    LET RECURSIVE all(_)
        all(us) == IF us = {} THEN <<>>
                   ELSE LET u == CHOOSE u \in us : TRUE IN
                        (IF d[u] = None THEN <<>> ELSE d[u][1]) \o all(us \ {u})
    IN  IF up THEN Some(all(Users)) ELSE None

\* DbTask.load of the ScanTask
ScanLoad(c, d, t, up) ==
    LET hit == Fetch(c, SCAN_ALL_KEY, t)
        rd == ScanData(d, up)
        filled == IF rd = None THEN c
                  ELSE UpdateFor(c, SCAN_ALL_KEY, rd[1], ScanExpires, ScanRefresh, t)
        scan == <<[by |-> "read", sink |-> "dos", fn |-> "scan", val |-> rd, ok |-> TRUE]>>
    IN  IF hit.value # None /\ ~hit.needsRefresh
        THEN [value |-> hit.value, cache |-> c, calls |-> <<>>]
        ELSE [value |-> IF hit.value # None THEN hit.value ELSE rd,
              cache |-> filled, calls |-> scan]

\* DocumentTable.scan_documents
scan_documents ==
    /\ pool_name = "documents"
    /\ \E ld \in {ScanLoad(cache, dos, now, up) : up \in BOOLEAN} :
        /\ cache' = ld.cache
        /\ calls' = ld.calls
        /\ result' = [raised |-> FALSE,
                      value |-> IF ld.value = None THEN <<>> ELSE ld.value[1]]
    /\ op' = [name |-> "scan_documents", key |-> SCAN_ALL_KEY, arg |-> None, at |-> now]
    /\ UNCHANGED <<conc, pool_name, redis, dos, now>>

InitDoc ==
    /\ pool_name = "documents"
    /\ cache = [k \in Users \cup {SCAN_ALL_KEY} |-> None]
    /\ redis = [u \in Users |-> None]
    /\ dos \in [Users -> Option(StoredLists)]
    /\ now = 0
    /\ op = [name |-> "init", key |-> "u1", arg |-> None, at |-> 0]
    /\ result = [raised |-> FALSE, value |-> None]
    /\ calls = <<>>
    /\ Quiet

NextDoc ==
    \/ Tick
    \/ \E u \in Users : get_documents(u)
    \/ \E u \in Users, doc \in Documents : save_document(doc, u)
    \/ scan_documents

SpecDoc == InitDoc /\ [][NextDoc]_vars

-----------------------------------------------------------------------------
(* Documents of every type, presented to a table whose sinks start empty *)

TypedDocuments == {[type |-> "visa", time |-> 1], [type |-> "profile", time |-> 2],
                   [type |-> "bulletin", time |-> 1]}

InitTyped == InitDoc /\ dos = [u \in Users |-> None]

NextTyped ==
    \/ Tick
    \/ \E u \in Users : get_documents(u)
    \/ \E u \in Users, doc \in TypedDocuments : save_document(doc, u)

SpecTyped == InitTyped /\ [][NextTyped]_vars

-----------------------------------------------------------------------------
(* The Cache Pool alone: entries written with any lifespan and refresh      *)
(* margin, fetched at any later time.                                       *)

Keys == {"k1", "k2"}
CachedValues == {"v1"}
Lifespans == 1..MaxNow

\* CachePool.update(key, value, life_span, now), by a task with the margin
update(key, value, lifespan, margin) ==
    /\ pool_name = "pool"
    /\ cache' = UpdateFor(cache, key, value, lifespan, margin, now)
    /\ op' = [name |-> "update", key |-> key, at |-> now,
              arg |-> Some([value |-> value, lifespan |-> lifespan, margin |-> margin])]
    /\ UNCHANGED <<conc, pool_name, redis, dos, now, result, calls>>

\* CachePool.erase(key)
erase(key) ==
    /\ pool_name = "pool"
    /\ cache' = Erase(cache, key)
    /\ op' = [name |-> "erase", key |-> key, at |-> now, arg |-> None]
    /\ UNCHANGED <<conc, pool_name, redis, dos, now, result, calls>>

\* CachePool.fetch(key, now)
fetch(key) ==
    /\ pool_name = "pool"
    /\ result' = [raised |-> FALSE, value |-> Fetch(cache, key, now)]
    /\ op' = [name |-> "fetch", key |-> key, at |-> now, arg |-> None]
    /\ UNCHANGED <<conc, pool_name, cache, redis, dos, now, calls>>

InitPool ==
    /\ pool_name = "pool"
    /\ cache = [k \in Keys |-> None]
    /\ redis = [u \in Users |-> None]
    /\ dos = [u \in Users |-> None]
    /\ now = 0
    /\ op = [name |-> "init", key |-> "k1", at |-> 0, arg |-> None]
    /\ result = [raised |-> FALSE, value |-> [value |-> None, needsRefresh |-> FALSE]]
    /\ calls = <<>>
    /\ Quiet

NextPool ==
    \/ Tick
    \/ \E k \in Keys, v \in CachedValues, l \in Lifespans :
        \E m \in 0..l : update(k, v, l, m)
    \/ \E k \in Keys : erase(k)
    \/ \E k \in Keys : fetch(k)

SpecPool == InitPool /\ [][NextPool]_vars

-----------------------------------------------------------------------------
(* Vocabulary of the properties *)

\* the record stored for u: the durable sink holds it and the process holds it
\* fresh in its Cache Pool, so a load returns it whatever the sinks answer
Stored(c, d, t, u) ==
    LET hit == Fetch(c, u, t) IN
    IF hit.needsRefresh \/ hit.value # d[u] THEN None ELSE hit.value

\* no record is stored for u in any tier
Absent(c, r, d, t, u) == Fetch(c, u, t).value = None /\ r[u] = None /\ d[u] = None

SaveCommandNames == {"save_contacts_command", "save_block_command", "save_mute_command"}
SaveNames == {"save_contacts", "save_devices"} \cup SaveCommandNames
GetNames == {"get_contacts", "get_devices", "get_documents", "get_contacts_command",
             "get_block_command", "get_mute_command"}

GetOf(name) ==
    CASE name = "save_contacts" -> "get_contacts"
      [] name = "save_devices" -> "get_devices"
      [] name = "save_contacts_command" -> "get_contacts_command"
      [] name = "save_block_command" -> "get_block_command"
      [] name = "save_mute_command" -> "get_mute_command"
      [] OTHER -> "none"

\* this step is a call of the operation name (a Tick moves the clock instead)
Called(name) == op'.name = name /\ op'.at = now /\ now' = now

\* the value a get returned, as an option (get_contacts and get_documents map
\* None to [])
Returned(res, name) ==
    IF name \in {"get_contacts", "get_documents"} THEN Some(res.value) ELSE res.value

Positive(content) == content.has_time /\ content.time > 0

\* the calls of the last operation issued by its write cascade, in order
WriteCalls == SelectSeq(calls, LAMBDA x : x.by = "write")

Failure == [raised |-> FALSE, value |-> FALSE]

-----------------------------------------------------------------------------
(* C1: a contacts command that is not strictly newer than the stored one is *)
(* rejected: save_contacts_command returns failure and the stored record    *)
(* stays.                                                                   *)
C1_StaleContactsCommandRejected ==
    [][\A u \in Users :
        LET old == Stored(cache, dos, now, u) IN
        (/\ Called("save_contacts_command")
         /\ op'.key = u
         /\ Positive(op'.arg[1])
         /\ old # None
         /\ Positive(old[1])
         /\ op'.arg[1].time <= old[1].time)
        => /\ result' = Failure
           /\ Fetch(cache', u, now').value = old
           /\ dos'[u] = old]_vars

(* C2: a contacts command with a positive time that is newer than the stored *)
(* record (or finds none) is accepted: the call returns, it returns success  *)
(* when a sink took the write, and the command is what a get returns next.   *)
C2_NewerContactsCommandAccepted ==
    [][\A u \in Users :
        LET old == Stored(cache, dos, now, u) IN
        (/\ Called("save_contacts_command")
         /\ op'.key = u
         /\ Positive(op'.arg[1])
         /\ \/ Absent(cache, redis, dos, now, u)
            \/ old # None /\ is_before(old[1], op'.arg[1].time))
        => /\ ~result'.raised
           /\ Fetch(cache', u, now').value = op'.arg]_vars

(* C3: over save_xxx_command calls with positive times, the time of the      *)
(* stored record never decreases from one accepted write to the next.        *)
C3_StoredTimeMonotone ==
    [][\A u \in Users :
        LET old == Stored(cache, dos, now, u)
            new == Fetch(cache', u, now').value
        IN  (/\ \E name \in SaveCommandNames : Called(name)
             /\ op'.key = u
             /\ Positive(op'.arg[1])
             /\ result' = [raised |-> FALSE, value |-> TRUE]
             /\ old # None
             /\ Positive(old[1]))
            => /\ new # None
               /\ new[1].time >= old[1].time]_vars

(* C4: save_block_command and save_mute_command reject a command that is not *)
(* strictly newer than the stored one: failure, no write cascade, the stored *)
(* record unchanged.                                                         *)
C4_StaleBlockMuteRejected ==
    [][\A u \in Users :
        LET old == Stored(cache, dos, now, u) IN
        (/\ Called("save_block_command") \/ Called("save_mute_command")
         /\ op'.key = u
         /\ Positive(op'.arg[1])
         /\ old # None
         /\ Positive(old[1])
         /\ op'.arg[1].time <= old[1].time)
        => /\ result' = Failure
           /\ \A i \in 1..Len(calls') : calls'[i].by # "write"
           /\ Fetch(cache', u, now').value = old
           /\ dos'[u] = old]_vars

(* C5: a command whose time is missing or not positive skips the freshness   *)
(* check: the call issues no sink read, runs the write cascade with the      *)
(* command and returns its outcome, whatever record is stored.               *)
C5_UntimedCommandSkipsCheck ==
    (op.name \in SaveCommandNames /\ ~Positive(op.arg[1]))
    => /\ ~result.raised
       /\ Len(calls) = 2
       /\ \A i \in 1..2 : calls[i].fn = "save" /\ calls[i].by = "write" /\ calls[i].val = op.arg
       /\ calls[1].sink = "redis"
       /\ calls[2].sink = "dos"
       /\ result.value = (calls[1].ok \/ calls[2].ok)

\* an untimed block command was saved over a stored command of the largest time,
\* which the failed durable write left in place
C5_Witness ==
    /\ op.name = "save_block_command"
    /\ ~op.arg[1].has_time
    /\ result = [raised |-> FALSE, value |-> TRUE]
    /\ dos[op.key] # None
    /\ Positive(dos[op.key][1])

(* C6: a save reports success exactly when at least one of the two sink      *)
(* writes of its write cascade succeeded.                                    *)
C6_SaveSucceedsIffEitherSink ==
    (op.name \in SaveNames /\ ~result.raised /\ WriteCalls # <<>>)
    => result.value = (\E i \in 1..Len(WriteCalls) : WriteCalls[i].ok)

\* the volatile write failed, the durable write succeeded, the save succeeded
C6_Witness ==
    /\ op.name = "save_devices"
    /\ result = [raised |-> FALSE, value |-> TRUE]
    /\ Len(calls) = 2
    /\ ~calls[1].ok
    /\ calls[2].ok

(* C7: every write cascade issues the volatile write and then the durable    *)
(* write, both with the saved value, whatever the first one returned.        *)
C7_BothSinkWritesIssued ==
    /\ (\/ op.name \in {"save_contacts", "save_devices"}
        \/ op.name \in SaveCommandNames /\ ~Positive(op.arg[1])
        \/ op.name \in SaveNames /\ result = [raised |-> FALSE, value |-> TRUE])
       => WriteCalls # <<>>
    /\ (op.name \in SaveNames /\ WriteCalls # <<>>)
       => /\ Len(WriteCalls) = 2
          /\ WriteCalls[1].sink = "redis"
          /\ WriteCalls[2].sink = "dos"
          /\ \A i \in 1..2 : WriteCalls[i].fn = "save" /\ WriteCalls[i].val = op.arg

\* the volatile write succeeded and the durable write was still issued (and failed)
C7_Witness ==
    /\ op.name = "save_contacts"
    /\ Len(calls) = 2
    /\ calls[1].ok
    /\ calls[2].sink = "dos"
    /\ ~calls[2].ok

(* C8: the get that follows a save of the same key, within the freshness     *)
(* window of the saved entry, returns the saved value without a sink call,   *)
(* whichever sink writes succeeded.                                          *)
C8_GetAfterSaveServedFromCache ==
    [][(/\ op.name \in SaveNames
        /\ ~result.raised
        /\ Called(GetOf(op.name))
        /\ op'.key = op.key
        /\ now' < op.at + (CacheExpires - CacheRefresh))
       => /\ calls' = <<>>
          /\ Returned(result', op'.name) = op.arg]_vars

\* a get served a saved list that neither sink holds
C8_Witness ==
    /\ op.name = "get_contacts"
    /\ calls = <<>>
    /\ result.value = <<"c1">>
    /\ redis[op.key] = None
    /\ dos[op.key] = None

(* C9: a load of a key that is in neither the Cache Pool nor the volatile    *)
(* sink and whose value the durable sink returns, returns that value, issues *)
(* the volatile write of exactly that value and stores it in the Cache Pool. *)
C9_DurableHitBackfills ==
    [][\A u \in Users :
        (/\ \E name \in GetNames : Called(name)
         /\ op'.key = u
         /\ Fetch(cache, u, now).value = None
         /\ redis[u] = None
         /\ Found(pool_name, dos[u])
         /\ Len(calls') >= 2
         /\ calls'[2].val = dos[u])
        => /\ Returned(result', op'.name) = dos[u]
           /\ Len(calls') = 3
           /\ calls'[3] = SaveCall("read", "redis", dos[u][1], calls'[3].ok)
           /\ calls'[3].ok => redis'[u] = dos[u]
           /\ Fetch(cache', u, now') = [value |-> dos[u], needsRefresh |-> FALSE]]_vars

\* a get_devices found the list in the durable sink only and back-filled it
C9_Witness ==
    /\ op.name = "get_devices"
    /\ Len(calls) = 3
    /\ calls[1].val = None
    /\ calls[3].ok
    /\ redis[op.key] = dos[op.key]
    /\ result.value = dos[op.key]
    /\ Fetch(cache, op.key, op.at).value = dos[op.key]

(* C10: after a load that fetched a value for a key from the sinks, a further *)
(* load of the key within the freshness window issues no sink call and        *)
(* returns that value.                                                        *)
C10_FreshLoadCallsNoSink ==
    [][(/\ op.name \in GetNames
        /\ calls # <<>>
        /\ Found(pool_name, calls[Len(calls)].val)
        /\ Called(op.name)
        /\ op'.key = op.key
        /\ now' < op.at + (CacheExpires - CacheRefresh))
       => /\ calls' = <<>>
          /\ Returned(result', op'.name) = calls[Len(calls)].val]_vars

\* a get was served from the Cache Pool at a later instant than the entry's load
\* (a contacts command with a positive time enters the Cache Pool by a load only)
C10_Witness ==
    /\ op.name = "get_contacts_command"
    /\ calls = <<>>
    /\ result.value # None
    /\ Positive(result.value[1])
    /\ cache[op.key] # None
    /\ op.at > cache[op.key][1].expireAt - CacheExpires

(* C11: a load of a key that no tier holds returns absent (the get returns   *)
(* an empty result) and leaves no Cache Pool entry that reports a value at   *)
(* any later instant; after a load that both sinks answered with absent,     *)
(* once a sink holds a value for the key, the next load reads the sinks and  *)
(* returns the value a sink answers with.                                    *)
C11_MissLeavesNoEntry ==
    [][\A u \in Users :
        /\ (/\ \E name \in GetNames : Called(name)
            /\ op'.key = u
            /\ Absent(cache, redis, dos, now, u))
           => /\ Returned(result', op'.name) \in {None, Some(<<>>)}
              /\ \A t \in now..(MaxNow + CacheExpires) : Fetch(cache', u, t).value = None
        /\ (/\ op.name \in GetNames
            /\ op.key = u
            /\ Returned(result, op.name) \in {None, Some(<<>>)}
            /\ Fetch(cache, u, now).value = None
            /\ Len(calls) = 2
            /\ calls[1].val = None
            /\ calls[2].val = None
            /\ Called(op.name)
            /\ op'.key = u
            /\ Found(pool_name, redis[u]) \/ Found(pool_name, dos[u]))
           => /\ calls' # <<>>
              /\ calls'[1].val = redis[u] /\ Found(pool_name, redis[u])
                 => Returned(result', op'.name) = redis[u]
              /\ (/\ ~Found(pool_name, calls'[1].val)
                  /\ calls'[2].val = dos[u]
                  /\ Found(pool_name, dos[u]))
                 => Returned(result', op'.name) = dos[u]]_vars

\* a get found nothing in any tier, another process then saved a list, and
\* the next get read the sinks and returned that list
C11_Witness ==
    /\ op.name = "get_contacts"
    /\ op.at = 0
    /\ result.value = <<"c2">>
    /\ Len(calls) = 1
    /\ calls[1].val = Some(<<"c2">>)
    /\ dos[op.key] = Some(<<"c2">>)

-----------------------------------------------------------------------------
(* Concurrent callers *)

Loads == {"get_devices", "get_contacts"}

\* the caller c resumes from the sink call it awaits
Resumes(c) ==
    \/ read_data_redis(c)
    \/ read_data_dos(c)
    \/ read_data_fill(c)
    \/ write_data_redis(c)
    \/ write_data_dos(c)
    \/ socket_addresses_saved(c)

\* the call of c has ended: it returned, or it can take no step any more
Ended(c) == pc[c].at = "done" \/ (pc[c].at # "idle" /\ ~ENABLED Resumes(c))

\* where in the history c called and returned (past the end: not yet)
Where(c, fn) ==
    IF \E i \in DOMAIN trace : trace[i].caller = c /\ trace[i].fn = fn
    THEN CHOOSE i \in DOMAIN trace : trace[i].caller = c /\ trace[i].fn = fn
    ELSE Len(trace) + 1

\* the calls of p and q overlap: each was called before the other returned
Overlap(p, q) ==
    /\ pc[p].at # "idle"
    /\ pc[q].at # "idle"
    /\ Where(p, "call") < Where(q, "return")
    /\ Where(q, "call") < Where(p, "return")

\* how often the callers cs have read sink for key
SinkReads(cs, sink, key) ==
    Cardinality({i \in DOMAIN trace : /\ trace[i].caller \in cs
                                      /\ trace[i].sink = sink
                                      /\ trace[i].fn = "get"
                                      /\ trace[i].key = key})

\* c is inside a cascading fetch for key
Fetching(c, key) == pc[c].at \in {"redis.get", "dos.get", "redis.fill"} /\ pc[c].key = key

\* the sink calls of the history
SinkCalls == SelectSeq(trace, LAMBDA e : e.sink # "table")

(* C12: when the loads of two callers for the same key overlap while no tier *)
(* holds the key, then once both calls have ended the volatile sink and the  *)
(* durable sink have each been read exactly once for the key by the two.     *)
C12_ConcurrentMissReadsOnce ==
    \A p, q \in Callers :
        (/\ p # q
         /\ pc[p].name \in Loads
         /\ pc[q].name \in Loads
         /\ pc[p].key = pc[q].key
         /\ Overlap(p, q)
         /\ Ended(p)
         /\ Ended(q)
         /\ Absent(cache, redis, dos, now, pc[p].key)
         /\ \A i \in DOMAIN trace : trace[i].fn # "save")
        => /\ SinkReads({p, q}, "redis", pc[p].key) = 1
           /\ SinkReads({p, q}, "dos", pc[p].key) = 1

(* C13: at most one caller is inside a cascading fetch (volatile read,       *)
(* durable read, back-fill) of a key at any time, also when the entry is in  *)
(* its refresh window.                                                       *)
C13_OneFetchPerKey ==
    \A k \in Users : Cardinality({c \in Callers : Fetching(c, k)}) <= 1

\* a caller reloads an entry it found in its refresh window while another
\* caller has called a load of the same key
C13_Witness ==
    \E p, q \in Callers :
        /\ p # q
        /\ Fetching(p, pc[q].key)
        /\ pc[p].ret # None
        /\ Fetch(cache, pc[p].key, now).needsRefresh
        /\ pc[q].name \in Loads
        /\ pc[q].at = "blocked"

(* C14: the sink calls of one caller's cascade are contiguous in the history *)
(* of sink calls on a key: no sink call of another caller lies between two   *)
(* of them.                                                                  *)
C14_CascadesNotInterleaved ==
    \A i, j, l \in DOMAIN SinkCalls :
        (/\ i < j
         /\ j < l
         /\ SinkCalls[i].caller = SinkCalls[l].caller
         /\ SinkCalls[i].key = SinkCalls[j].key)
        => SinkCalls[j].caller = SinkCalls[i].caller

\* a caller is between the two sink writes of its write cascade, a second
\* caller of the same key has called and has issued no sink call, and a third
\* ran its whole cascade before them
C14_Witness ==
    \E p, q, r \in Callers :
        /\ pc[p].name \in {"save_contacts", "save_devices"}
        /\ pc[p].at = "dos.save"
        /\ pc[q].at = "blocked"
        /\ pc[q].key = pc[p].key
        /\ pc[r].at = "done"
        /\ pc[r].ret = Some(TRUE)
        /\ \A i \in DOMAIN trace : trace[i].caller = q => trace[i].fn = "call"

(* C15: no caller waits for the Table mutex while the caller that holds it   *)
(* is suspended on a sink call and cannot resume; stated for the operations  *)
(* of ActiveTable, which take the mutex around their sink call themselves.   *)
C15_NoMutexDeadlock ==
    \A p, q \in Callers :
        (/\ pc[q].at = "blocked"
         /\ pc[q].name \in {"add_socket_address", "remove_socket_address"}
         /\ locks[TableLock] = p
         /\ pc[p].at = "sockets.save")
        => ENABLED Resumes(p)

\* every sink call the last operation issued through its action by was answered
Answered(cs, by) == \A k \in DOMAIN cs : cs[k].by = by => cs[k].ok

C17_ReassignedNameUnlisted ==
    [][\A n \in Names, i, j \in IDs :
        (/\ op.name = "save_record"
         /\ op.key = n
         /\ op.arg = Some(j)
         /\ i # j
         /\ Answered(calls, "write")
         /\ Called("get_names")
         /\ op'.key = i)
        => n \notin result'.value]_vars

\* the document of the list that a presented document is compared with
Comparable(documents, document) ==
    LET own == last_document(documents, document.type) IN
    IF own = None /\ document.type = "visa"
    THEN last_document(documents, "profile") ELSE own

\* the list the load of a step returned: the one the Cache Pool held, else the
\* one a sink answered in the sink calls cs of the step
LoadedList(c, t, u, cs) ==
    LET hit == Fetch(c, u, t)
        found == SelectSeq(cs, LAMBDA x : x.fn = "get" /\ Found("documents", x.val))
    IN  IF hit.value # None THEN hit.value[1]
        ELSE IF found # <<>> THEN found[1].val[1]
        ELSE <<>>

\* save_document is called with a document that is not newer than the one of
\* its type in the list the call loads
StaleDocument(u) ==
    /\ Called("save_document")
    /\ op'.key = u
    /\ LET old == Comparable(LoadedList(cache, now, u, calls'), op'.arg[1]) IN
       old # None /\ op'.arg[1].time <= old[1].time

(* C18, as stated: a save_document with a document that is not newer than    *)
(* the stored one of its type returns failure, leaves the identifier's list  *)
(* in the Cache Pool and in both sinks and the all-documents scan cache as   *)
(* they were, and issues no sink write.                                      *)
C18_StaleDocumentChangesNothing ==
    [][\A u \in Users :
        StaleDocument(u)
        => /\ result' = Failure
           /\ cache' = cache
           /\ redis' = redis
           /\ dos' = dos
           /\ \A k \in DOMAIN calls' : calls'[k].fn # "save"]_vars

(* C18, amended: such a save_document returns failure, runs no write         *)
(* cascade and leaves the durable sink and the scan cache as they were; the  *)
(* read cascade of its check may fill the Cache Pool entry with the list it  *)
(* loaded and back-fill the volatile sink with the durable list.             *)
C18_StaleDocumentRejected ==
    [][\A u \in Users :
        StaleDocument(u)
        => /\ result' = Failure
           /\ dos' = dos
           /\ cache'[SCAN_ALL_KEY] = cache[SCAN_ALL_KEY]
           /\ WriteCalls' = <<>>
           /\ redis'[u] \in {redis[u], dos[u]}
           /\ \/ cache'[u] = cache[u]
              \/ /\ cache'[u] # None
                 /\ Some(cache'[u][1].value) \in {redis[u], dos[u]}]_vars

\* a visa of time 1 was presented while the Cache Pool holds a visa of time 2
\* and a scan of all documents: it was refused
C18_Witness ==
    /\ op.name = "save_document"
    /\ op.arg = Some([type |-> "visa", time |-> 1])
    /\ result = Failure
    /\ Fetch(cache, "u1", now).value # None
    /\ last_document(Fetch(cache, "u1", now).value[1], "visa") = Some([type |-> "visa", time |-> 2])
    /\ Fetch(cache, SCAN_ALL_KEY, now).value # None

\* list is the list before without its element at index i, followed by document
Supersedes(list, before, i, document) ==
    /\ Len(list) = Len(before)
    /\ \A k \in DOMAIN list :
        list[k] = IF k < i THEN before[k]
                  ELSE IF k < Len(before) THEN before[k + 1]
                  ELSE document

(* C19: a save_document with a document newer than the one of its type in    *)
(* the list it loads leaves the list without exactly that old document and   *)
(* with the new one as its last element, every other document in its place,  *)
(* and hands this full list to both sinks through the write cascade.         *)
C19_NewerDocumentSupersedes ==
    [][\A u \in Users :
        LET before == LoadedList(cache, now, u, calls')
            old == Comparable(before, op'.arg[1])
        IN  (/\ Called("save_document")
             /\ op'.key = u
             /\ old # None
             /\ op'.arg[1].time > old[1].time)
            => /\ cache'[u] # None
               /\ \E i \in DOMAIN before :
                   /\ before[i] = old[1]
                   /\ Supersedes(cache'[u][1].value, before, i, op'.arg[1])
               /\ Len(WriteCalls') = 2
               /\ WriteCalls'[1].sink = "redis"
               /\ WriteCalls'[2].sink = "dos"
               /\ \A k \in 1..2 : WriteCalls'[k].val = Some(cache'[u][1].value)
               /\ WriteCalls'[1].ok => redis'[u] = Some(cache'[u][1].value)
               /\ WriteCalls'[2].ok => dos'[u] = Some(cache'[u][1].value)
               /\ result'.value = (WriteCalls'[1].ok \/ WriteCalls'[2].ok)]_vars

\* a visa of time 2 replaced the visa of time 1 of a list that also holds a
\* bulletin: the bulletin moved up and the new visa is last, in every tier
C19_Witness ==
    /\ op.name = "save_document"
    /\ op.arg = Some([type |-> "visa", time |-> 2])
    /\ result.value = TRUE
    /\ cache["u1"] # None
    /\ cache["u1"][1].value = <<[type |-> "bulletin", time |-> 1], [type |-> "visa", time |-> 2]>>
    /\ redis["u1"] = Some(cache["u1"][1].value)
    /\ dos["u1"] = Some(cache["u1"][1].value)

\* save_document is called with a document that passes the check against the
\* list the call loads
AcceptedDocument(u) ==
    /\ Called("save_document")
    /\ op'.key = u
    /\ LET old == Comparable(LoadedList(cache, now, u, calls'), op'.arg[1]) IN
       old = None \/ op'.arg[1].time > old[1].time

(* C20: an accepted save_document appends the document to the all-documents  *)
(* scan-cache entry it finds, in place (the entry keeps its times) and       *)
(* without a scan of the durable sink, and creates no entry when it finds    *)
(* none; a scan_documents that follows within the freshness window of the    *)
(* entry calls no sink and returns a list that contains the document.        *)
C20_ScanCacheAppendedInPlace ==
    [][/\ \A u \in Users :
            AcceptedDocument(u)
            => /\ \A k \in DOMAIN calls' : calls'[k].fn # "scan"
               /\ IF Fetch(cache, SCAN_ALL_KEY, now).value # None
                  THEN cache'[SCAN_ALL_KEY] =
                           Some([cache[SCAN_ALL_KEY][1] EXCEPT
                                     !.value = Append(@, op'.arg[1])])
                  ELSE cache'[SCAN_ALL_KEY] = cache[SCAN_ALL_KEY]
       /\ LET hit == Fetch(cache, SCAN_ALL_KEY, now) IN
          (/\ op.name = "save_document"
           /\ WriteCalls # <<>>
           /\ Called("scan_documents")
           /\ hit.value # None
           /\ ~hit.needsRefresh)
          => /\ calls' = <<>>
             /\ \E k \in DOMAIN result'.value : result'.value[k] = op.arg[1]]_vars

\* scan_documents answered from the scan cache with the list it had scanned,
\* which still holds the superseded visa, and the new visa appended to it
C20_Witness ==
    /\ op.name = "scan_documents"
    /\ calls = <<>>
    /\ result.value = <<[type |-> "visa", time |-> 1], [type |-> "bulletin", time |-> 1],
                        [type |-> "visa", time |-> 2]>>

\* the logical type of a document type: "profile" is the legacy name of "visa"
LogicalType(type) == IF type = "profile" THEN "visa" ELSE type

OnePerType(list) ==
    \A i, j \in DOMAIN list :
        i # j => LogicalType(list[i].type) # LogicalType(list[j].type)

(* C21: the document list of an identifier, in the Cache Pool and in each    *)
(* sink, holds at most one document of each logical type, over any sequence  *)
(* of save_document calls on a table that starts empty.                      *)
C21_OneDocumentPerType ==
    \A u \in Users :
        /\ cache[u] # None => OnePerType(cache[u][1].value)
        /\ redis[u] # None => OnePerType(redis[u][1])
        /\ dos[u] # None => OnePerType(dos[u][1])

\* the caller c has run the part of add_ / remove_socket_address that changes
\* the map of the identifier u
Mapped(c, u) ==
    /\ pc[c].name \in {"add_socket_address", "remove_socket_address"}
    /\ pc[c].key = u
    /\ pc[c].at \in {"sockets.save", "done"}

\* the addresses of u added and not removed since, by the first n callers in
\* the order of their calls
RECURSIVE AddedNotRemoved(_, _)
AddedNotRemoved(u, n) ==
    IF n = 0 THEN {}
    ELSE LET before == AddedNotRemoved(u, n - 1) IN
         IF ~Mapped(n, u) THEN before
         ELSE IF pc[n].name = "add_socket_address" THEN before \cup {pc[n].arg[1]}
         ELSE before \ {pc[n].arg[1]}

(* C22: the local socket set of an identifier is the set of the addresses    *)
(* added and not removed since, and the local map holds no identifier with   *)
(* an empty set: it has no entry for an identifier whose set became empty.   *)
C22_LocalSocketSet ==
    pool_name = "session" =>
        \A u \in Users :
            LET sockets == AddedNotRemoved(u, MaxCallers) IN
            socket_address[u] = IF sockets = {} THEN None ELSE Some(sockets)

\* the same address was added twice and then removed: the identifier has no
\* entry
C22_Witness ==
    /\ pc[1].name = "add_socket_address"
    /\ pc[2].name = "add_socket_address"
    /\ pc[3].name = "remove_socket_address"
    /\ pc[1].arg = pc[2].arg
    /\ pc[2].arg = pc[3].arg
    /\ pc[3].at = "done"
    /\ socket_address["u1"] = None

\* this step is the return of an add_ / remove_socket_address of the caller c
\* whose write the volatile sink accepted
SocketsMirrored(c) ==
    /\ pc[c].at = "sockets.save"
    /\ pc'[c].at = "done"
    /\ pc'[c].ok

(* C23: when an add_socket_address or remove_socket_address returns and the  *)
(* volatile sink accepted its write, the volatile sink holds the local       *)
(* socket set of the identifier, and none when the local map has no entry.   *)
C23_SinkMirrorsLocalSet ==
    [][\A c \in Callers :
        SocketsMirrored(c) => redis'[pc[c].key] = socket_address'[pc[c].key]]_vars

\* two add_socket_address calls of two addresses returned, the second one
\* mirrored: the volatile sink holds the local set of two addresses
C23_Witness ==
    /\ pc[1].name = "add_socket_address"
    /\ pc[2].name = "add_socket_address"
    /\ pc[1].arg # pc[2].arg
    /\ pc[1].at = "done"
    /\ pc[2].at = "done"
    /\ pc[2].ok
    /\ socket_address["u1"] = Some(Addresses)
    /\ redis["u1"] = socket_address["u1"]

\* this step is the return of a get_active_users of the caller c
ActiveUsersReturned(c) ==
    /\ pc'[c].name = "get_active_users"
    /\ pc'[c].at = "done"
    /\ pc[c].at # "done"

(* C24: get_active_users returns the set its call found in the Cache Pool,   *)
(* else the set of the volatile sink, else the empty set; it returns the     *)
(* empty set when nothing is cached and the volatile sink has no active      *)
(* user, whatever the local socket-address map holds.                        *)
C24_ActiveUsersFromSinkOnly ==
    [][\A c \in Callers :
        LET cached == IF pc[c].at = "active.get" THEN pc[c].ret
                      ELSE Fetch(cache, ACTIVE_KEY, now).value
            held == {u \in Users : redis[u] # None}
        IN  ActiveUsersReturned(c)
            => /\ cached # None => pc'[c].ret = cached
               /\ cached = None => pc'[c].ret \in {Some(held), Some({})}
               /\ cached = None /\ held = {} => pc'[c].ret = Some({})]_vars

\* get_active_users returned nobody while the local map holds the sockets of
\* u1 (the volatile sink did not take them)
C24_Witness ==
    \E c \in Callers :
        /\ pc[c].name = "get_active_users"
        /\ pc[c].at = "done"
        /\ pc[c].ret = Some({})
        /\ socket_address["u1"] # None
        /\ redis["u1"] = None

\* this step is the return of clear_socket_addresses, which the volatile sink
\* answered
Cleared ==
    /\ pc[Main].at = "sockets.clear"
    /\ pc'[Main].at # "sockets.clear"
    /\ pc'[Main].ok

Events(fn) == {i \in DOMAIN trace : trace[i].fn = fn}
EventOf(c, fn) == CHOOSE i \in DOMAIN trace : trace[i].caller = c /\ trace[i].fn = fn

(* C26: startup calls clear_socket_addresses once; no component holds the    *)
(* database before that call has returned, and every call of the ActiveTable *)
(* by a component comes after its return.                                    *)
C26_ClearedOnceBeforeServing ==
    pool_name = "session" =>
        /\ Cardinality(Events("clear")) <= 1
        /\ pc[Main].at = "done" => Cardinality(Events("clear")) = 1
        /\ Holders(pc[Main].at) # {} => Events("cleared") # {}
        /\ \A c \in Callers \ {Main} :
            pc[c].at # "idle"
            => /\ Events("cleared") # {}
               /\ EventOf(Main, "cleared") < EventOf(c, "call")

\* prepare has ended and a component has added a socket address
C26_Witness ==
    /\ pc[Main].at = "done"
    /\ pc[2].name = "add_socket_address"
    /\ pc[2].at = "done"
    /\ Events("clear") # {}

Miss == [value |-> None, needsRefresh |-> FALSE]

(* C27: a fetch of a key at the time t, after update(key, value, lifespan,   *)
(* now0) with the refresh margin m, returns (value, false) when              *)
(* t < now0 + lifespan - m, (value, true) from there up to before            *)
(* now0 + lifespan, and (nil, false) from now0 + lifespan on; after an erase *)
(* of the key, and for any key of a pool nothing was written to, it returns  *)
(* (nil, false).                                                             *)
C27_FetchWindows ==
    [][\A k \in Keys :
        (Called("fetch") /\ op'.key = k)
        => /\ (op.name = "update" /\ op.key = k)
              => LET now0 == op.at
                     w == op.arg[1]
                 IN  result'.value =
                        IF now < now0 + w.lifespan - w.margin
                        THEN [value |-> Some(w.value), needsRefresh |-> FALSE]
                        ELSE IF now < now0 + w.lifespan
                        THEN [value |-> Some(w.value), needsRefresh |-> TRUE]
                        ELSE Miss
           /\ (op.name = "erase" /\ op.key = k) => result'.value = Miss
           /\ op.name = "init" => result'.value = Miss]_vars

\* an entry written at 0 to live 3 units with the margin 1 is fetched in its
\* refresh window, at 2
C27_Witness ==
    /\ op.name = "fetch"
    /\ now = 2
    /\ result.value.needsRefresh
    /\ cache[op.key] # None
    /\ cache[op.key][1].expireAt = 3
    /\ cache[op.key][1].refreshAt = 2

\* no call of the step to the volatile sink was answered: its get returned
\* absent and its save returned false
VolatileDown(cs) ==
    \A i \in DOMAIN cs :
        cs[i].sink = "redis" => IF cs[i].fn = "get" THEN cs[i].val = None ELSE ~cs[i].ok

\* what the durable sink returned to the get of the step, as the operation
\* hands it on: None for nothing found
DurableValue(cs) ==
    LET gets == SelectSeq(cs, LAMBDA x : x.sink = "dos" /\ x.fn = "get") IN
    IF gets # <<>> /\ Found(pool_name, gets[1].val) THEN gets[1].val ELSE None

(* C28: whatever the sinks answer, an operation ends with a result and not   *)
(* with a raised fault; when the volatile sink answers no call, a get that   *)
(* finds nothing in the Cache Pool returns what the durable sink returned    *)
(* and a save returns the outcome of the durable write.                      *)
C28_NoFaultWhateverTheSinks ==
    [][/\ ~result'.raised
       /\ \A u \in Users :
            (/\ \E name \in GetNames : Called(name)
             /\ op'.key = u
             /\ Fetch(cache, u, now).value = None
             /\ VolatileDown(calls'))
            => Returned(result', op'.name) =
                   IF DurableValue(calls') = None /\ op'.name \in {"get_contacts", "get_documents"}
                   THEN Some(<<>>) ELSE DurableValue(calls')
       /\ (/\ \E name \in SaveNames : Called(name)
           /\ WriteCalls' # <<>>
           /\ VolatileDown(calls'))
          => result'.value = WriteCalls'[Len(WriteCalls')].ok]_vars

(* C29: after save_record(name, id) whose two sink writes were taken, a      *)
(* get_record(name) whose sink calls are answered returns id, whatever an    *)
(* earlier get_record(name) left in the cache.                               *)
C29_SavedRecordRead ==
    [][\A n \in Names, i \in IDs :
        (/\ op.name = "save_record"
         /\ op.key = n
         /\ op.arg = Some(i)
         /\ Answered(calls, "write")
         /\ Called("get_record")
         /\ op'.key = n
         /\ Answered(calls', "read"))
        => result'.value = Some(i)]_vars

\* a save_record of the caller c that returned with every sink call answered
RecordStored(c) ==
    /\ pc[c].at = "done"
    /\ pc[c].name = "save_record"
    /\ pc[c].ok
    /\ pc[c].ret = Some(TRUE)

(* C30: after two save_record calls for different names have both completed  *)
(* with all their sink calls answered, the all-records blob of the durable   *)
(* sink holds both new bindings, for every interleaving of the two calls.    *)
C30_NeitherUpdateLost ==
    \A p, q \in Callers :
        (/\ RecordStored(p)
         /\ RecordStored(q)
         /\ pc[p].key # pc[q].key)
        => /\ dos[ALL_KEY] # None
           /\ dos[ALL_KEY][1][pc[p].key] = pc[p].arg[1].identifier
           /\ dos[ALL_KEY][1][pc[q].key] = pc[q].arg[1].identifier

\* the registry the durable sink holds: {} when it holds none
DurableRecords(d) == IF d[ALL_KEY] = None THEN NoKeyRecords ELSE d[ALL_KEY][1]

(* C31: save_record(name, id) ends without a fault and leaves in the durable *)
(* sink the blob that was there before the call with name mapped to id,      *)
(* whatever calls of get_record and save_record came before it.              *)
C31_OnlyTheNameChanges ==
    [][\A n \in KeyNames, i \in IDs :
        (/\ Called("save_record")
         /\ op'.key = n
         /\ op'.arg = Some(i))
        => /\ ~result'.raised
           /\ dos'[ALL_KEY] = Some([DurableRecords(dos) EXCEPT ![n] = i])]_vars

\* the caller c, suspended inside save_record, goes on
RecordResumes(c) ==
    \/ records_loaded(c)
    \/ record_mirrored(c)
    \/ records_saved(c)

(* C32: a save_record called while no other caller is inside the Table, the  *)
(* all-records blob not being in the Cache Pool, is never stuck before its   *)
(* return: the load of the blob under the mutex save_record holds goes on.   *)
C32_LoneSaveRecordTerminates ==
    \A c \in Savers :
        (/\ pc[c].name = "save_record"
         /\ pc[c].at # "done"
         /\ \A d \in Callers \ {c} : pc[d].at = "idle"
         /\ Fetch(cache, ALL_KEY, pc[c].arg[1].now).value = None)
        => ENABLED RecordResumes(c)

\* the sink writes of an operation, in the order it issued them
Writes(cs) == SelectSeq(cs, LAMBDA call : call.by = "write")

\* the all-records entry of the Cache Pool holds the binding name -> identifier
CachedBinding(pool, name, identifier, t) ==
    LET hit == Fetch(pool, ALL_KEY, t) IN
    hit.value # None /\ hit.value[1][name] = identifier

\* save_record reports what the durable sink answered to the blob, and the
\* durable sink holds the blob when it took it
ReportsDurable(name, identifier) ==
    LET writes == Writes(calls') IN
    /\ Len(writes) = 2
    /\ writes[1].sink = "redis"
    /\ writes[2].sink = "dos"
    /\ result'.value = writes[2].ok
    /\ writes[2].ok => /\ dos'[ALL_KEY] # None
                       /\ dos'[ALL_KEY][1][name] = identifier

(* C33, as stated: save_record reports success exactly when the durable sink *)
(* took the blob, and when it reports failure the all-records entry of the   *)
(* Cache Pool and the volatile sink hold the new binding.                    *)
C33_FailureLeavesBothUpdated ==
    [][\A n \in Names, i \in IDs :
        (/\ Called("save_record")
         /\ op'.key = n
         /\ op'.arg = Some(i))
        => /\ ReportsDurable(n, i)
           /\ ~result'.value => /\ CachedBinding(cache', n, i, now)
                                /\ redis'[n] = Some(i)]_vars

(* C33, amended: save_record reports success exactly when the durable sink  *)
(* took the blob, whatever the volatile sink answered; when it reports       *)
(* failure the all-records entry of the Cache Pool holds the new binding,    *)
(* and the volatile sink was asked for it before the durable sink and holds  *)
(* it when it took the write.                                                *)
C33_FailureAfterCacheAndMirror ==
    [][\A n \in Names, i \in IDs :
        (/\ Called("save_record")
         /\ op'.key = n
         /\ op'.arg = Some(i))
        => /\ ReportsDurable(n, i)
           /\ ~result'.value => /\ CachedBinding(cache', n, i, now)
                                /\ Writes(calls')[1].ok => redis'[n] = Some(i)]_vars

C33_Witness ==
    /\ op.name = "save_record"
    /\ op.key = "alice"
    /\ op.arg = Some("idB")
    /\ result.value = FALSE
    /\ Writes(calls)[1].ok
    /\ redis["alice"] = Some("idB")
    /\ CachedBinding(cache, "alice", "idB", now)
    /\ dos[ALL_KEY] # None
    /\ dos[ALL_KEY][1]["alice"] = "idA"

\* the sink sink answered a read of the last operation with a value
Got(cs, sink) == \E k \in DOMAIN cs : cs[k].sink = sink /\ cs[k].fn = "get" /\ cs[k].ok

\* the writes the last operation issued to the volatile sink
Mirrored(cs) == SelectSeq(cs, LAMBDA call : call.sink = "redis" /\ call.fn = "save")

\* the all-records blob a call gets: the one of the Cache Pool, or else the
\* one the durable sink answers with
BlobSeen ==
    LET hit == Fetch(cache, ALL_KEY, now) IN
    IF hit.value # None THEN hit.value
    ELSE IF Got(calls', "dos") THEN dos[ALL_KEY] ELSE None

\* the identifier the blob a call gets has for the name
BlobID(name) == IF BlobSeen = None THEN NoID ELSE BlobSeen[1][name]

\* neither the Cache Pool nor the volatile sink gives the call an identifier
\* for the name
RecordMissed(name) ==
    /\ Fetch(cache, name, now).value \in {None, Some(NoID)}
    /\ redis[name] = None \/ ~Got(calls', "redis")

(* C34: a get_record(name) that finds the name neither in the Cache Pool nor *)
(* in the volatile sink returns what the all-records blob has for it.  When  *)
(* the blob has nothing it returns absent, asks no write of the volatile     *)
(* sink and leaves a negative entry for the name that lives the standard     *)
(* time; when the blob has an identifier it returns that identifier and has  *)
(* the volatile sink write the binding.                                      *)
C34_RecordFromBlob ==
    [][\A n \in Names :
        (/\ Called("get_record")
         /\ op'.key = n
         /\ RecordMissed(n))
        => IF BlobID(n) = NoID
           THEN /\ result'.value = None
                /\ Mirrored(calls') = <<>>
                /\ redis' = redis
                /\ cache'[n] # None
                /\ cache'[n][1].value = NoID
                /\ cache'[n][1].expireAt = now + CacheExpires
           ELSE /\ result'.value = Some(BlobID(n))
                /\ Len(Mirrored(calls')) = 1
                /\ Mirrored(calls')[1].key = n
                /\ Mirrored(calls')[1].ok => redis'[n] = Some(BlobID(n))
                /\ Fetch(cache', n, now).value = Some(BlobID(n))]_vars

C34_Witness ==
    /\ op.name = "get_record"
    /\ op.key = "alice"
    /\ op.at = now
    /\ result.value = None
    /\ Got(calls, "dos")
    /\ dos[ALL_KEY] = Some(NoRecords)
    /\ redis["alice"] = None
    /\ cache["alice"] # None
    /\ cache["alice"][1].value = NoID

\* neither the Cache Pool nor the volatile sink gives the call the names of
\* the identifier
NamesMissed(identifier) ==
    /\ Fetch(cache, identifier, now).value = None
    /\ ~Got(calls', "redis")

\* the names n with blob[n] = identifier, none when there is no blob
NamesOf(blob, identifier) ==
    IF blob = None THEN {} ELSE {n \in Names : blob[1][n] = identifier}

(* C35: a get_names(id) that finds the names of id neither in the Cache Pool *)
(* nor in the volatile sink returns exactly the names the all-records blob   *)
(* maps to id, no name when there is no blob, and leaves that set in the     *)
(* Cache Pool under id.                                                      *)
C35_NamesFromBlob ==
    [][\A i \in IDs :
        (/\ Called("get_names")
         /\ op'.key = i
         /\ NamesMissed(i))
        => /\ result'.value = NamesOf(BlobSeen, i)
           /\ Fetch(cache', i, now).value = Some(NamesOf(BlobSeen, i))]_vars

C35_Witness ==
    /\ op.name = "get_names"
    /\ op.key = "idA"
    /\ op.at = now
    /\ ~Got(calls, "redis")
    /\ Got(calls, "dos")
    /\ dos[ALL_KEY] # None
    /\ dos[ALL_KEY][1]["alice"] = "idA"
    /\ result.value = {"alice"}
    /\ Fetch(cache, "idA", now).value = Some({"alice"})

\* the indices of the documents of a list that are labelled doc_type
Labelled(list, doc_type) == {k \in DOMAIN list : list[k].type = doc_type}

\* the list holds no visa and a document labelled 'profile'
ProfileOnly(list) == Labelled(list, "visa") = {} /\ Labelled(list, "profile") # {}

\* the index of the most recent document labelled 'profile' of the list
LastProfile(list) ==
    CHOOSE i \in Labelled(list, "profile") :
        \A j \in Labelled(list, "profile") : list[j].time <= list[i].time

(* C36: a save_document with a visa, for an identifier whose list holds no   *)
(* visa but a document labelled 'profile', is refused without any write when *)
(* the visa is not newer than that document; otherwise the list it saves is  *)
(* the loaded one without that document and with the visa at its end.        *)
C36_VisaComparedWithProfile ==
    [][\A u \in Users :
        LET before == LoadedList(cache, now, u, calls')
            document == op'.arg[1]
        IN  (/\ Called("save_document")
             /\ op'.key = u
             /\ document.type = "visa"
             /\ ProfileOnly(before))
            => IF document.time <= before[LastProfile(before)].time
               THEN /\ result' = Failure
                    /\ WriteCalls' = <<>>
                    /\ dos' = dos
               ELSE /\ WriteCalls' # <<>>
                    /\ \A k \in DOMAIN WriteCalls' :
                         Supersedes(WriteCalls'[k].val[1], before, LastProfile(before),
                                    document)
                    /\ Supersedes(cache'[u][1].value, before, LastProfile(before),
                                  document)]_vars

\* a visa of time 2 took the place of the profile of time 1, which the durable
\* sink still holds because it did not take the write
C36_Witness ==
    /\ op.name = "save_document"
    /\ op.arg = Some([type |-> "visa", time |-> 2])
    /\ result = [raised |-> FALSE, value |-> TRUE]
    /\ dos["u1"] = Some(<<[type |-> "profile", time |-> 1]>>)
    /\ redis["u1"] = Some(<<[type |-> "visa", time |-> 2]>>)
    /\ cache["u1"] # None
    /\ cache["u1"][1].value = <<[type |-> "visa", time |-> 2]>>

\* the list scan_documents returns from the scan cache pool at time t: none
\* when the entry is missing or expired
StandingScan(pool, t) == Fetch(pool, SCAN_ALL_KEY, t).value

\* the document is an element of the list
Holds(list, document) == \E k \in DOMAIN list : list[k] = document

(* C37: after a save_document that was accepted and superseded an old        *)
(* document, the list of the standing all-documents scan cache, which a      *)
(* scan_documents returns, holds the new document and not the old one.       *)
C37_ScanCacheDropsSuperseded ==
    [][\A u \in Users :
        LET old == Comparable(LoadedList(cache, now, u, calls'), op'.arg[1]) IN
        (/\ Called("save_document")
         /\ op'.key = u
         /\ old # None
         /\ op'.arg[1].time > old[1].time
         /\ result'.value = TRUE
         /\ StandingScan(cache, now) # None)
        => /\ StandingScan(cache', now) # None
           /\ Holds(StandingScan(cache', now)[1], op'.arg[1])
           /\ ~Holds(StandingScan(cache', now)[1], old[1])]_vars

\* the operation of the step is a get whose load ran its read cascade
Cascaded == op' # op /\ op'.at = now /\ now' = now /\ calls' # <<>>

\* the sink calls of the last operation that are writes of the volatile sink
BackFills(cs) == SelectSeq(cs, LAMBDA call : call.fn = "save" /\ call.sink = "redis")

(* C38: in the read cascade of the devices and of the documents an empty     *)
(* list from the volatile sink is a miss: the durable sink is asked, and the *)
(* volatile sink is written back exactly when the durable list is not       *)
(* empty.  In the cascade of the contacts and of the command records         *)
(* whatever the volatile sink holds, an empty contact list included, is      *)
(* returned and the durable sink is not asked.                               *)
C38_EmptyListIsAMiss ==
    [][Cascaded =>
        LET first == calls'[1].val IN
        IF pool_name \in DevicePools \cup DocumentPools
        THEN (first # None /\ Len(first[1]) = 0)
             => /\ Len(calls') >= 2
                /\ calls'[2].sink = "dos"
                /\ calls'[2].fn = "get"
                /\ BackFills(calls') # <<>>
                   <=> (calls'[2].val # None /\ Len(calls'[2].val[1]) > 0)
                /\ \A k \in DOMAIN BackFills(calls') :
                     BackFills(calls')[k].val = calls'[2].val
        ELSE first # None
             => /\ Len(calls') = 1
                /\ Fetch(cache, op'.key, now).value = None
                   => Returned(result', op'.name) = first]_vars

\* the volatile sink answered with an empty list of documents, the durable sink
\* with a list of one, which was returned and written back
C38_Witness ==
    /\ pool_name = "documents"
    /\ op.name = "get_documents"
    /\ Len(calls) = 3
    /\ calls[1].val = Some(<<>>)
    /\ calls[2].val = Some(<<[type |-> "visa", time |-> 1]>>)
    /\ calls[3].fn = "save"
    /\ result.value = <<[type |-> "visa", time |-> 1]>>

\* add_device of caller c was called for the identifier, and every sink call
\* it has made was answered
AddsDevice(c, identifier) ==
    pc[c].name = "add_device" /\ pc[c].key = identifier /\ pc[c].ok

\* no add_device call has a step left to take: each has returned, or the
\* thread of the event loop is blocked
Halted == ThreadBlocked \/ \A c \in Savers : pc[c].at = "done"

\* the durable device list of the identifier holds the device
DeviceStored(identifier, device) ==
    /\ dos[identifier] # None
    /\ \E i \in DOMAIN dos[identifier][1] : dos[identifier][1][i] = device

\* C39: two add_device calls for one identifier with different devices, every
\* sink call answered: when the calls have run as far as they go, both have
\* completed and the stored device list of the identifier holds both devices
C39_BothDevicesStored ==
    \A u \in Users :
        (AddsDevice(1, u) /\ AddsDevice(2, u) /\ Halted) =>
            /\ \A c \in Savers : pc[c].at = "done"
            /\ DeviceStored(u, AddedBy(1)) /\ DeviceStored(u, AddedBy(2))

\* refresh_neighbors has returned and the database took every call it made
Refreshed == pc[Main].name = "refresh_neighbors" /\ pc[Main].at = "done" /\ pc[Main].ok

\* the nodes the calls of fn were issued for, in order
Issued(fn) ==
    LET of == SelectSeq(calls, LAMBDA call : call.fn = fn)
    IN  [k \in DOMAIN of |-> of[k].node]

\* the (host, port) pairs of a list of nodes
Pairs(list) == {<<list[k].host, list[k].port>> : k \in DOMAIN list}
PairsOf(S) == {<<node.host, node.port>> : node \in S}

=============================================================================
